---- MODULE Spec2Model ----
(***************************************************************************)
(* Model of the riak protobuf client (package riak): the connection pool   *)
(* of client.go (Connect/tcpConnect, Close, getConn, releaseConn), the     *)
(* send phase request() and the response readers response(), mr_response() *)
(* and mp_response(), run by several goroutines that share one Client.     *)
(*                                                                         *)
(* The Client's fields are read and written without any lock, so every     *)
(* access to c.connected, c.conns and to the channel itself is one step of *)
(* the goroutine that makes it.                                            *)
(*                                                                         *)
(* Further views of the package, each with a specification of its own:    *)
(* objects and models against a node (ObjSpec, RoundSpec), Close called   *)
(* from several goroutines (CloseSpec), the package-level functions of    *)
(* the default client (DefaultSpec) and RFile (FileSpec, WriteSpec).      *)
(***************************************************************************)
EXTENDS Integers, Sequences, FiniteSets, TLC

\* ---- bounds ------------------------------------------------------------
NumProcs  == 2      \* goroutines that share the client
MaxConns  == 2      \* largest conn_count a client is constructed with
MaxDials  == 3      \* successful dials over a behaviour (connection ids)
MaxOps    == 2      \* operations started over a behaviour
MaxSeqOps == 3      \* operations one goroutine runs one after the other
MaxFrames == 3      \* frames the server sends in answer to one request
MaxSiblings == 2    \* values the node holds under one key
MaxClock  == 2      \* writes and deletes of one key over a behaviour
MaxCalls  == 2      \* calls the application makes on objects and models

Procs   == 1..NumProcs
ChanIds == 1..(NumProcs + 1)   \* channel objects alive at the same time
NilChan == 0                   \* c.conns before the first make()
NilConn == 0                   \* a nil *net.TCPConn
ConnIds == 1..MaxDials

\* kinds of operation a goroutine can issue on the client
ReqKinds == {"single", "mr", "mp"}        \* operations that go through request()
OpKinds  == ReqKinds \cup {"ping", "connect", "close"}

VARIABLES
    connected,   \* c.connected
    conn_count,  \* c.conn_count (fixed at construction)
    chanWait,    \* c.chanWait (0: wait forever)
    conns,       \* c.conns: the channel object the field points to
    chans,       \* the buffer of every live channel object
    nextConn,    \* number of connections dialed so far (ids 1..nextConn)
    closed,      \* connections on which Close() was called
    pc,          \* position of every goroutine
    op,          \* operation the goroutine is running
    held,        \* the goroutine's local variable conn
    ref,         \* channel object a pending channel operation was evaluated to
    i,           \* loop counter of tcpConnect / Close
    err,         \* error the running function returns
    acq,         \* connections the operation received in getConn
    rel,         \* releaseConn calls the operation completed
    dials,       \* connections the operation dialed in tcpConnect
    sawConn,     \* value of c.connected read by tcpConnect
    checkedOut,  \* received by getConn and not yet sent back by releaseConn
    makes,       \* channels created by tcpConnect (counted up to 2)
    solo,        \* no other goroutine was inside the client during the operation
    ops,         \* operations started
    wop,         \* wire view: the function under study
    wpc,         \* wire view: its position
    wreq,        \* message code and payload length handed to request()
    whdr,        \* the 5 header bytes request() built
    wdec,        \* message length and code a reader decoded from the header
    win,         \* frames the server sends on the connection
    wtail,       \* after them the server closes the connection or stays silent
    wpos,        \* frames the reader has consumed
    wacc,        \* resp / response accumulated by a multi-frame reader
    wret,        \* response returned
    werr,        \* error returned
    wconn,       \* the reader's local variable conn
    wpool,       \* connections the reader passed to releaseConn
    wwrites,     \* frames written on the connection
    store,       \* object view: what the Riak node holds under every key
    obj,         \* the *RObject the application holds
    robject,     \* the model's robject field points to obj
    hasResolve,  \* the model's type defines its own Resolve
    dest,        \* value mapped onto the fields of the model's struct
    oop,         \* the last function the application called
    oerr,        \* error it returned
    oreq,        \* request it sent
    oresp,       \* response it received
    resolves,    \* calls of dest.Resolve it made
    rcount,      \* count handed to Resolve
    received,    \* vector clock last received from the store for obj
    ocalls,      \* calls made so far
    slice,       \* the slice handed to GetSiblings
    oprev,       \* the function called before the last one, and its error
    olimit,      \* calls the application makes over the behaviour
    defaultClient, \* package view: the package variable defaultClient
    dfn,         \* the package-level function called last
    dname,       \* the bucket name handed to it
    dres,        \* what it returned, or that it panicked
    dcalls,      \* calls of package-level functions so far
    fchunks,     \* file view: the data of every chunk object the node holds
    chunk_count, \* root.Meta["chunk_count"] as stored on the node
    chunk_size,  \* r.chunk_size
    fpos,        \* r.pos
    fsize,       \* r.size
    fchunk,      \* r.chunk: the chunk object the RFile holds
    fopen,       \* the application holds an *RFile
    fop,         \* the last call on the file
    flen,        \* len(p) of that call
    fn,          \* n it returned
    ferr,        \* error it returned, or that it panicked
    fbuf,        \* bytes a Read copied into p
    fprev,       \* r.pos when the call was made
    fref,        \* a byte array on which the same writes were applied
    fcalls       \* calls on the file so far

shared == <<connected, conn_count, chanWait, conns, chans, nextConn, closed>>
locals == <<pc, op, held, ref, i, err>>
ghosts == <<acq, rel, dials, sawConn, checkedOut, makes, solo, ops>>
wire   == <<wop, wpc, wreq, whdr, wdec, win, wtail, wpos, wacc, wret, werr,
             wconn, wpool, wwrites>>
pool   == <<shared, locals, ghosts>>
object == <<store, obj, robject, hasResolve, dest, oop, oerr, oreq, oresp,
             resolves, rcount, received, ocalls, slice, oprev, olimit>>
dflt   == <<defaultClient, dfn, dname, dres, dcalls>>
rfile  == <<fchunks, chunk_count, chunk_size, fpos, fsize, fchunk, fopen,
             fop, flen, fn, ferr, fbuf, fprev, fref, fcalls>>
vars   == <<pool, wire, object, dflt, rfile>>

\* ---- channels ----------------------------------------------------------
\* A channel object nobody refers to any more is garbage: its buffer is dropped.
Live(cn, rf) == {cn} \cup {rf[p] : p \in Procs}

Collect(ch, cn, rf) ==
    [k \in ChanIds |-> IF k \in Live(cn, rf) THEN ch[k] ELSE <<>>]

\* make(chan *net.TCPConn, c.conn_count): an object no goroutine refers to
NewChan == CHOOSE k \in ChanIds :
             /\ k \notin Live(conns, ref)
             /\ \A j \in ChanIds : j \notin Live(conns, ref) => k <= j

\* a receive on channel k can proceed
CanRecv(k) == k # NilChan /\ Len(chans[k]) > 0
\* a send on channel k can proceed (capacity is c.conn_count)
CanSend(k) == k # NilChan /\ Len(chans[k]) < conn_count

\* ---- the wire view at rest ----------------------------------------------
\* no frame is being built or read
WireIdle ==
    /\ wop = "none"
    /\ wpc = "idle"
    /\ wreq = [code |-> 0, len |-> [hi |-> 0, lo |-> 0]]
    /\ whdr = <<>>
    /\ wdec = [msglen |-> [hi |-> 0, lo |-> 0], msgcode |-> 0]
    /\ win = <<>>
    /\ wtail = "eof"
    /\ wpos = 0
    /\ wacc = <<>>
    /\ wret = <<>>
    /\ werr = "nil"
    /\ wconn = "none"
    /\ wpool = <<>>
    /\ wwrites = 0

\* ---- the object view at rest ---------------------------------------------
\* keys of the bucket: one the application names, one the store generates
Keys == {"k", "gen"}

\* no *RObject yet
NoObject == [Key |-> "none"]

\* no request sent, no response received
NoMessage == [kind |-> "none"]

\* nothing stored, no object fetched, no model loaded
ObjIdle ==
    /\ store = [k \in Keys |-> [vclock |-> 0, content |-> <<>>]]
    /\ obj = NoObject
    /\ robject = FALSE
    /\ hasResolve = FALSE
    /\ dest = ""
    /\ oop = "none"
    /\ oerr = "nil"
    /\ oreq = NoMessage
    /\ oresp = NoMessage
    /\ resolves = 0
    /\ rcount = 0
    /\ received = 0
    /\ ocalls = 0
    /\ slice = <<>>
    /\ oprev = <<"none", "nil">>
    /\ olimit = 0

\* ---- the package view at rest ---------------------------------------------
\* no package-level function was called
DefaultIdle ==
    /\ defaultClient = "nil"
    /\ dfn = "none"
    /\ dname = ""
    /\ dres = "none"
    /\ dcalls = 0

\* ---- the file view at rest ------------------------------------------------
\* no file was created
NoChunk == [key |-> -1, data |-> <<>>]

FileIdle ==
    /\ fchunks = <<>>
    /\ chunk_count = 0
    /\ chunk_size = 0
    /\ fpos = 0
    /\ fsize = 0
    /\ fchunk = NoChunk
    /\ fopen = FALSE
    /\ fop = "none"
    /\ flen = 0
    /\ fn = 0
    /\ ferr = "nil"
    /\ fbuf = <<>>
    /\ fprev = 0
    /\ fref = <<>>
    /\ fcalls = 0

\* ---- construction ------------------------------------------------------
\* NewClient / NewClientPool, optionally followed by SetChanWaitTimeout
Init ==
    /\ connected = FALSE
    /\ conn_count \in (-1)..MaxConns
    /\ chanWait \in {0, 1}
    /\ conns = NilChan
    /\ chans = [k \in ChanIds |-> <<>>]
    /\ nextConn = 0
    /\ closed = {}
    /\ pc = [p \in Procs |-> "idle"]
    /\ op = [p \in Procs |-> "none"]
    /\ held = [p \in Procs |-> NilConn]
    /\ ref = [p \in Procs |-> NilChan]
    /\ i = [p \in Procs |-> 0]
    /\ err = [p \in Procs |-> "nil"]
    /\ acq = [p \in Procs |-> 0]
    /\ rel = [p \in Procs |-> 0]
    /\ dials = [p \in Procs |-> 0]
    /\ sawConn = [p \in Procs |-> FALSE]
    /\ checkedOut = 0
    /\ makes = 0
    /\ solo = [p \in Procs |-> FALSE]
    /\ ops = 0
    /\ WireIdle
    /\ ObjIdle
    /\ DefaultIdle
    /\ FileIdle

\* ---- an application goroutine calls into the client ---------------------
\* Ping/Id/ServerVersion ("ping"), an operation built on request(), Connect()
\* or Close()
Begin(p) ==
    /\ pc[p] = "idle"
    /\ ops < MaxOps
    /\ \E k \in OpKinds :
         /\ op' = [op EXCEPT ![p] = k]
         /\ pc' = [pc EXCEPT ![p] =
                     CASE k = "connect" -> "t_resolve"
                       [] k = "close"   -> "c_chk"
                       [] OTHER         -> "g_chk"]
    /\ ops' = ops + 1
    /\ solo' = [q \in Procs |-> q = p /\ \A r \in Procs : pc[r] = "idle"]
    /\ UNCHANGED <<shared, held, ref, i, err,
                   acq, rel, dials, sawConn, checkedOut, makes>>
    /\ UNCHANGED <<wire, object, dflt, rfile>>

\* the operation returns to the application; its locals go out of scope
Return(p) ==
    /\ pc[p] = "done"
    /\ pc' = [pc EXCEPT ![p] = "idle"]
    /\ op' = [op EXCEPT ![p] = "none"]
    /\ held' = [held EXCEPT ![p] = NilConn]
    /\ err' = [err EXCEPT ![p] = "nil"]
    /\ i' = [i EXCEPT ![p] = 0]
    /\ acq' = [acq EXCEPT ![p] = 0]
    /\ rel' = [rel EXCEPT ![p] = 0]
    /\ dials' = [dials EXCEPT ![p] = 0]
    /\ sawConn' = [sawConn EXCEPT ![p] = FALSE]
    /\ solo' = [solo EXCEPT ![p] = FALSE]
    /\ UNCHANGED <<shared, ref, checkedOut, makes, ops>>
    /\ UNCHANGED <<wire, object, dflt, rfile>>

\* ---- tcpConnect --------------------------------------------------------
\* where tcpConnect returns to: Connect()'s caller, or getConn
ConnectFails(p, e) ==
    /\ err' = [err EXCEPT ![p] = e]
    /\ pc' = [pc EXCEPT ![p] = "done"]

\* tcpConnect with the test "c.conn_count < 0" in place of "<= 0"
tcpResolve_CountBelowZero(p) ==
    /\ pc[p] = "t_resolve"
    /\ \/ /\ ConnectFails(p, "ResolveError")
          /\ UNCHANGED sawConn
       \/ /\ conn_count < 0
          /\ ConnectFails(p, "BadNumberOfConnections")
          /\ UNCHANGED sawConn
       \/ /\ conn_count >= 0
          /\ sawConn' = [sawConn EXCEPT ![p] = connected]
          /\ pc' = [pc EXCEPT ![p] = IF connected THEN "t_mark" ELSE "t_make"]
          /\ UNCHANGED err
    /\ UNCHANGED <<shared, op, held, ref, i,
                   acq, rel, dials, checkedOut, makes, solo, ops>>
    /\ UNCHANGED <<wire, object, dflt, rfile>>

\* tcpConnect without the test of c.connected: it always builds a new pool
tcpResolve_AlwaysDials(p) ==
    /\ pc[p] = "t_resolve"
    /\ \/ /\ ConnectFails(p, "ResolveError")
          /\ UNCHANGED sawConn
       \/ /\ conn_count <= 0
          /\ ConnectFails(p, "BadNumberOfConnections")
          /\ UNCHANGED sawConn
       \/ /\ conn_count > 0
          /\ sawConn' = [sawConn EXCEPT ![p] = connected]
          /\ pc' = [pc EXCEPT ![p] = "t_make"]
          /\ UNCHANGED err
    /\ UNCHANGED <<shared, op, held, ref, i,
                   acq, rel, dials, checkedOut, makes, solo, ops>>
    /\ UNCHANGED <<wire, object, dflt, rfile>>

\* ResolveTCPAddr, the conn_count check and the read of c.connected
tcpResolve(p) ==
    /\ pc[p] = "t_resolve"
    /\ \/ /\ ConnectFails(p, "ResolveError")
          /\ UNCHANGED sawConn
       \/ /\ conn_count <= 0
          /\ ConnectFails(p, "BadNumberOfConnections")
          /\ UNCHANGED sawConn
       \/ /\ conn_count > 0
          /\ sawConn' = [sawConn EXCEPT ![p] = connected]
          /\ pc' = [pc EXCEPT ![p] = IF connected THEN "t_mark" ELSE "t_make"]
          /\ UNCHANGED err
    /\ UNCHANGED <<shared, op, held, ref, i,
                   acq, rel, dials, checkedOut, makes, solo, ops>>
    /\ UNCHANGED <<wire, object, dflt, rfile>>

\* tcpConnect that sets c.connected before the dial loop
tcpMake_MarksEarly(p) ==
    /\ pc[p] = "t_make"
    /\ conns' = NewChan
    /\ chans' = Collect([chans EXCEPT ![NewChan] = <<>>], NewChan, ref)
    /\ connected' = TRUE
    /\ i' = [i EXCEPT ![p] = 0]
    /\ pc' = [pc EXCEPT ![p] = IF 0 < conn_count THEN "t_dial" ELSE "t_mark"]
    /\ makes' = IF makes < 2 THEN makes + 1 ELSE makes
    /\ UNCHANGED <<conn_count, chanWait, nextConn, closed,
                   op, held, ref, err,
                   acq, rel, dials, sawConn, checkedOut, solo, ops>>
    /\ UNCHANGED <<wire, object, dflt, rfile>>

\* c.conns = make(chan *net.TCPConn, c.conn_count)
tcpMake(p) ==
    /\ pc[p] = "t_make"
    /\ conns' = NewChan
    /\ chans' = Collect([chans EXCEPT ![NewChan] = <<>>], NewChan, ref)
    /\ i' = [i EXCEPT ![p] = 0]
    /\ pc' = [pc EXCEPT ![p] = IF 0 < conn_count THEN "t_dial" ELSE "t_mark"]
    /\ makes' = IF makes < 2 THEN makes + 1 ELSE makes
    /\ UNCHANGED <<connected, conn_count, chanWait, nextConn, closed,
                   op, held, ref, err,
                   acq, rel, dials, sawConn, checkedOut, solo, ops>>
    /\ UNCHANGED <<wire, object, dflt, rfile>>

\* dialer.Dial, then the evaluation of c.conns for the send
tcpDial(p) ==
    /\ pc[p] = "t_dial"
    /\ \/ /\ nextConn < MaxDials
          /\ nextConn' = nextConn + 1
          /\ held' = [held EXCEPT ![p] = nextConn + 1]
          /\ ref' = [ref EXCEPT ![p] = conns]
          /\ dials' = [dials EXCEPT ![p] = @ + 1]
          /\ pc' = [pc EXCEPT ![p] = "t_send"]
          /\ UNCHANGED err
       \/ /\ ConnectFails(p, "DialError")
          /\ UNCHANGED <<nextConn, held, ref, dials>>
    /\ UNCHANGED <<connected, conn_count, chanWait, conns, chans, closed,
                   op, i, acq, rel, sawConn, checkedOut, makes, solo, ops>>
    /\ UNCHANGED <<wire, object, dflt, rfile>>

\* tcpConnect whose loop stops after the first connection
tcpSend_OneOnly(p) ==
    /\ pc[p] = "t_send"
    /\ CanSend(ref[p])
    /\ LET rf == [ref EXCEPT ![p] = NilChan]
       IN /\ ref' = rf
          /\ chans' = Collect([chans EXCEPT ![ref[p]] = Append(@, held[p])],
                              conns, rf)
    /\ held' = [held EXCEPT ![p] = NilConn]
    /\ i' = [i EXCEPT ![p] = @ + 1]
    /\ pc' = [pc EXCEPT ![p] = "t_mark"]
    /\ UNCHANGED <<connected, conn_count, chanWait, conns, nextConn, closed,
                   op, err, ghosts>>
    /\ UNCHANGED <<wire, object, dflt, rfile>>

\* c.conns <- conn; i++
tcpSend(p) ==
    /\ pc[p] = "t_send"
    /\ CanSend(ref[p])
    /\ LET rf == [ref EXCEPT ![p] = NilChan]
       IN /\ ref' = rf
          /\ chans' = Collect([chans EXCEPT ![ref[p]] = Append(@, held[p])],
                              conns, rf)
    /\ held' = [held EXCEPT ![p] = NilConn]
    /\ i' = [i EXCEPT ![p] = @ + 1]
    /\ pc' = [pc EXCEPT ![p] = IF i[p] + 1 < conn_count THEN "t_dial" ELSE "t_mark"]
    /\ UNCHANGED <<connected, conn_count, chanWait, conns, nextConn, closed,
                   op, err, ghosts>>
    /\ UNCHANGED <<wire, object, dflt, rfile>>

\* c.connected = true; return nil
tcpMark(p) ==
    /\ pc[p] = "t_mark"
    /\ connected' = TRUE
    /\ pc' = [pc EXCEPT ![p] = IF op[p] = "connect" THEN "done" ELSE "g_eval"]
    /\ UNCHANGED <<conn_count, chanWait, conns, chans, nextConn, closed,
                   op, held, ref, i, err, ghosts>>
    /\ UNCHANGED <<wire, object, dflt, rfile>>

\* ---- Close -------------------------------------------------------------
\* where Close returns to: its caller, or the deferred releaseConn of request()
AfterClose(p) == IF op[p] = "close" THEN "done" ELSE "r_eval"

\* Close without the test of c.connected
closeCheck_NoGuard(p) ==
    /\ pc[p] = "c_chk"
    /\ pc' = [pc EXCEPT ![p] = "c_eval"]
    /\ i' = [i EXCEPT ![p] = 0]
    /\ UNCHANGED <<shared, op, held, ref, err, ghosts>>
    /\ UNCHANGED <<wire, object, dflt, rfile>>

\* if !c.connected { return }
closeCheck(p) ==
    /\ pc[p] = "c_chk"
    /\ pc' = [pc EXCEPT ![p] = IF connected THEN "c_eval" ELSE AfterClose(p)]
    /\ i' = [i EXCEPT ![p] = 0]
    /\ UNCHANGED <<shared, op, held, ref, err, ghosts>>
    /\ UNCHANGED <<wire, object, dflt, rfile>>

\* evaluation of c.conns for the receive
closeEval(p) ==
    /\ pc[p] = "c_eval"
    /\ ref' = [ref EXCEPT ![p] = conns]
    /\ pc' = [pc EXCEPT ![p] = "c_recv"]
    /\ UNCHANGED <<shared, op, held, i, err, ghosts>>
    /\ UNCHANGED <<wire, object, dflt, rfile>>

\* conn := <-c.conns; conn.Close(); i++
closeRecv(p) ==
    /\ pc[p] = "c_recv"
    /\ CanRecv(ref[p])
    /\ LET rf == [ref EXCEPT ![p] = NilChan]
           c  == Head(chans[ref[p]])
       IN /\ ref' = rf
          /\ chans' = Collect([chans EXCEPT ![ref[p]] = Tail(@)], conns, rf)
          /\ closed' = closed \cup ({c} \ {NilConn})
    /\ i' = [i EXCEPT ![p] = @ + 1]
    /\ pc' = [pc EXCEPT ![p] = IF i[p] + 1 < conn_count THEN "c_eval" ELSE "c_mark"]
    /\ UNCHANGED <<connected, conn_count, chanWait, conns, nextConn,
                   op, held, err, ghosts>>
    /\ UNCHANGED <<wire, object, dflt, rfile>>

\* c.connected = false
closeMark(p) ==
    /\ pc[p] = "c_mark"
    /\ connected' = FALSE
    /\ pc' = [pc EXCEPT ![p] = AfterClose(p)]
    /\ UNCHANGED <<conn_count, chanWait, conns, chans, nextConn, closed,
                   op, held, ref, i, err, ghosts>>
    /\ UNCHANGED <<wire, object, dflt, rfile>>

\* ---- getConn / releaseConn ----------------------------------------------
\* the response reader an operation uses
Reader(k) == CASE k = "mr" -> "m_first"
               [] k = "mp" -> "p_loop"
               [] OTHER    -> "s_read"

\* if !c.connected { err = c.Connect() ... }
getConnCheck(p) ==
    /\ pc[p] = "g_chk"
    /\ pc' = [pc EXCEPT ![p] = IF connected THEN "g_eval" ELSE "t_resolve"]
    /\ UNCHANGED <<shared, op, held, ref, i, err, ghosts>>
    /\ UNCHANGED <<wire, object, dflt, rfile>>

\* evaluation of c.conns for the receive
getConnEval(p) ==
    /\ pc[p] = "g_eval"
    /\ ref' = [ref EXCEPT ![p] = conns]
    /\ pc' = [pc EXCEPT ![p] = "g_recv"]
    /\ UNCHANGED <<shared, op, held, i, err, ghosts>>
    /\ UNCHANGED <<wire, object, dflt, rfile>>

\* getConn that reads the connection without taking it out of the channel
getConnRecv_Peek(p) ==
    /\ pc[p] = "g_recv"
    /\ CanRecv(ref[p])
    /\ LET rf == [ref EXCEPT ![p] = NilChan]
       IN /\ ref' = rf
          /\ chans' = Collect(chans, conns, rf)
    /\ held' = [held EXCEPT ![p] = Head(chans[ref[p]])]
    /\ acq' = [acq EXCEPT ![p] = @ + 1]
    /\ checkedOut' = checkedOut + 1
    /\ pc' = [pc EXCEPT ![p] = "q_send"]
    /\ UNCHANGED <<connected, conn_count, chanWait, conns, nextConn, closed,
                   op, i, err, rel, dials, sawConn, makes, solo, ops>>
    /\ UNCHANGED <<wire, object, dflt, rfile>>

\* conn = <-c.conns (in the select when chanWait > 0)
getConnRecv(p) ==
    /\ pc[p] = "g_recv"
    /\ CanRecv(ref[p])
    /\ LET rf == [ref EXCEPT ![p] = NilChan]
       IN /\ ref' = rf
          /\ chans' = Collect([chans EXCEPT ![ref[p]] = Tail(@)], conns, rf)
    /\ held' = [held EXCEPT ![p] = Head(chans[ref[p]])]
    /\ acq' = [acq EXCEPT ![p] = @ + 1]
    /\ checkedOut' = checkedOut + 1
    /\ pc' = [pc EXCEPT ![p] = "q_send"]
    /\ UNCHANGED <<connected, conn_count, chanWait, conns, nextConn, closed,
                   op, i, err, rel, dials, sawConn, makes, solo, ops>>
    /\ UNCHANGED <<wire, object, dflt, rfile>>

\* getConn that runs the select with the timer also when c.chanWait is 0
getConnTimeout_Always(p) ==
    /\ pc[p] = "g_recv"
    /\ ~CanRecv(ref[p])
    /\ LET rf == [ref EXCEPT ![p] = NilChan]
       IN /\ ref' = rf
          /\ chans' = Collect(chans, conns, rf)
    /\ err' = [err EXCEPT ![p] = "ChanWaitTimeout"]
    /\ pc' = [pc EXCEPT ![p] = "done"]
    /\ UNCHANGED <<connected, conn_count, chanWait, conns, nextConn, closed,
                   op, held, i, ghosts>>
    /\ UNCHANGED <<wire, object, dflt, rfile>>

\* case <-time.After(c.chanWait): err = ChanWaitTimeout, with nothing to
\* receive for the whole wait
getConnTimeout(p) ==
    /\ pc[p] = "g_recv"
    /\ chanWait > 0
    /\ ~CanRecv(ref[p])
    /\ LET rf == [ref EXCEPT ![p] = NilChan]
       IN /\ ref' = rf
          /\ chans' = Collect(chans, conns, rf)
    /\ err' = [err EXCEPT ![p] = "ChanWaitTimeout"]
    /\ pc' = [pc EXCEPT ![p] = "done"]
    /\ UNCHANGED <<connected, conn_count, chanWait, conns, nextConn, closed,
                   op, held, i, ghosts>>
    /\ UNCHANGED <<wire, object, dflt, rfile>>

\* evaluation of c.conns for the send
releaseEval(p) ==
    /\ pc[p] = "r_eval"
    /\ ref' = [ref EXCEPT ![p] = conns]
    /\ pc' = [pc EXCEPT ![p] = "r_send"]
    /\ UNCHANGED <<shared, op, held, i, err, ghosts>>
    /\ UNCHANGED <<wire, object, dflt, rfile>>

\* c.conns <- conn
releaseSend(p) ==
    /\ pc[p] = "r_send"
    /\ CanSend(ref[p])
    /\ LET rf == [ref EXCEPT ![p] = NilChan]
       IN /\ ref' = rf
          /\ chans' = Collect([chans EXCEPT ![ref[p]] = Append(@, held[p])],
                              conns, rf)
    /\ held' = [held EXCEPT ![p] = NilConn]
    /\ rel' = [rel EXCEPT ![p] = @ + 1]
    /\ checkedOut' = checkedOut - 1
    /\ pc' = [pc EXCEPT ![p] = "done"]
    /\ UNCHANGED <<connected, conn_count, chanWait, conns, nextConn, closed,
                   op, i, err, acq, dials, sawConn, makes, solo, ops>>
    /\ UNCHANGED <<wire, object, dflt, rfile>>

\* ---- request -----------------------------------------------------------
\* proto.Marshal, the frame header and c.write, for an operation built on
\* request(); a nil connection refuses the write with EINVAL
requestSend(p) ==
    /\ pc[p] = "q_send"
    /\ op[p] \in ReqKinds
    /\ \/ \* Marshal fails: return err, conn; the caller returns err
          /\ err' = [err EXCEPT ![p] = "MarshalError"]
          /\ held' = [held EXCEPT ![p] = NilConn]
          /\ pc' = [pc EXCEPT ![p] = "done"]
       \/ \* the write succeeds
          /\ held[p] # NilConn
          /\ pc' = [pc EXCEPT ![p] = Reader(op[p])]
          /\ UNCHANGED <<err, held>>
       \/ \* the write fails, not with a broken pipe
          /\ err' = [err EXCEPT ![p] = "WriteError"]
          /\ pc' = [pc EXCEPT ![p] = "r_eval"]
          /\ UNCHANGED held
       \/ \* the write fails with EPIPE: c.Close() before the deferred release
          /\ held[p] # NilConn
          /\ err' = [err EXCEPT ![p] = "EPIPE"]
          /\ pc' = [pc EXCEPT ![p] = "c_chk"]
          /\ UNCHANGED held
    /\ UNCHANGED <<shared, op, ref, i, ghosts>>
    /\ UNCHANGED <<wire, object, dflt, rfile>>

\* Ping, Id, ServerVersion: c.write(conn, msg) with the error ignored
pingWrite(p) ==
    /\ pc[p] = "q_send"
    /\ op[p] = "ping"
    /\ pc' = [pc EXCEPT ![p] = "s_read"]
    /\ UNCHANGED <<shared, op, held, ref, i, err, ghosts>>
    /\ UNCHANGED <<wire, object, dflt, rfile>>

\* ---- response readers --------------------------------------------------
\* a reader that returns on an error without releaseConn
ReadEnds_NoRelease(p, e) ==
    /\ err' = [err EXCEPT ![p] = e]
    /\ pc' = [pc EXCEPT ![p] = IF e = "nil" THEN "r_eval" ELSE "done"]

\* the reader leaves through releaseConn with error e
ReadEnds(p, e) ==
    /\ err' = [err EXCEPT ![p] = e]
    /\ pc' = [pc EXCEPT ![p] = "r_eval"]

\* outcomes of reading and decoding one frame that end a reader
FrameErrors == {"ReadError", "EOF", "DecodeError", "StoreError"}

\* response(): one frame
response(p) ==
    /\ pc[p] = "s_read"
    /\ \/ \* header read fails with io.EOF, the re-dial succeeds
          /\ held[p] # NilConn
          /\ nextConn < MaxDials
          /\ nextConn' = nextConn + 1
          /\ held' = [held EXCEPT ![p] = nextConn + 1]
          /\ ReadEnds(p, "EOF")
       \/ \* header read fails with io.EOF, the re-dial fails: conn is nil
          /\ held[p] # NilConn
          /\ held' = [held EXCEPT ![p] = NilConn]
          /\ ReadEnds(p, "EOF")
          /\ UNCHANGED nextConn
       \/ \* header read fails otherwise
          /\ ReadEnds(p, "ReadError")
          /\ UNCHANGED <<nextConn, held>>
       \/ \* body read fails, error frame, or payload that does not decode
          /\ held[p] # NilConn
          /\ \E e \in FrameErrors : ReadEnds(p, e)
          /\ UNCHANGED <<nextConn, held>>
       \/ \* acknowledgement without payload, or payload decoded
          /\ held[p] # NilConn
          /\ ReadEnds(p, "nil")
          /\ UNCHANGED <<nextConn, held>>
    /\ UNCHANGED <<connected, conn_count, chanWait, conns, chans, closed,
                   op, ref, i, ghosts>>
    /\ UNCHANGED <<wire, object, dflt, rfile>>

\* mr_response(): the first frame
mrFirst(p) ==
    /\ pc[p] = "m_first"
    /\ \/ \* read error, undecodable frame or error frame
          \E e \in FrameErrors : ReadEnds(p, e)
       \/ \* rpbMapRedResp with done set
          ReadEnds(p, "nil")
       \/ \* rpbMapRedResp without done: read on
          /\ pc' = [pc EXCEPT ![p] = "m_loop"]
          /\ UNCHANGED err
       \/ \* any other message code: return nil, err with err == nil
          ReadEnds(p, "nil")
    /\ UNCHANGED <<shared, op, held, ref, i, ghosts>>
    /\ UNCHANGED <<wire, object, dflt, rfile>>

\* mr_response(): the frames after the first
mrLoop(p) ==
    /\ pc[p] = "m_loop"
    /\ \/ \* read error or undecodable frame
          \E e \in {"ReadError", "EOF", "DecodeError"} : ReadEnds(p, e)
       \/ \* frame with done set
          ReadEnds(p, "nil")
       \/ \* frame without done: next iteration
          UNCHANGED <<pc, err>>
    /\ UNCHANGED <<shared, op, held, ref, i, ghosts>>
    /\ UNCHANGED <<wire, object, dflt, rfile>>

\* mp_response(): every frame
mpLoop(p) ==
    /\ pc[p] = "p_loop"
    /\ \/ \* read error, undecodable frame or error frame
          \E e \in FrameErrors : ReadEnds(p, e)
       \/ \* rpbListKeysResp with done set
          ReadEnds(p, "nil")
       \/ \* rpbListKeysResp without done: next iteration
          UNCHANGED <<pc, err>>
       \/ \* any other message code: return nil, err with err == nil
          ReadEnds(p, "nil")
    /\ UNCHANGED <<shared, op, held, ref, i, ghosts>>
    /\ UNCHANGED <<wire, object, dflt, rfile>>

\* ---- the system --------------------------------------------------------
Next ==
    \E p \in Procs :
        \/ Begin(p)
        \/ Return(p)
        \/ tcpResolve(p)
        \/ tcpMake(p)
        \/ tcpDial(p)
        \/ tcpSend(p)
        \/ tcpMark(p)
        \/ closeCheck(p)
        \/ closeEval(p)
        \/ closeRecv(p)
        \/ closeMark(p)
        \/ getConnCheck(p)
        \/ getConnEval(p)
        \/ getConnRecv(p)
        \/ getConnTimeout(p)
        \/ releaseEval(p)
        \/ releaseSend(p)
        \/ requestSend(p)
        \/ pingWrite(p)
        \/ response(p)
        \/ mrFirst(p)
        \/ mrLoop(p)
        \/ mpLoop(p)

Spec == Init /\ [][Next]_vars

\* ---- one goroutine, one operation after the other ------------------------
\* the application calls into the client from a single goroutine
SeqBegin(p) ==
    /\ pc[p] = "idle"
    /\ ops < MaxSeqOps
    /\ \E k \in OpKinds :
         /\ op' = [op EXCEPT ![p] = k]
         /\ pc' = [pc EXCEPT ![p] =
                     CASE k = "connect" -> "t_resolve"
                       [] k = "close"   -> "c_chk"
                       [] OTHER         -> "g_chk"]
    /\ ops' = ops + 1
    /\ solo' = [q \in Procs |-> q = p]
    /\ UNCHANGED <<shared, held, ref, i, err,
                   acq, rel, dials, sawConn, checkedOut, makes>>
    /\ UNCHANGED <<wire, object, dflt, rfile>>

SeqNext ==
    \E p \in {1} :
        \/ SeqBegin(p)
        \/ Return(p)
        \/ tcpResolve(p)
        \/ tcpMake(p)
        \/ tcpDial(p)
        \/ tcpSend(p)
        \/ tcpMark(p)
        \/ closeCheck(p)
        \/ closeEval(p)
        \/ closeRecv(p)
        \/ closeMark(p)
        \/ getConnCheck(p)
        \/ getConnEval(p)
        \/ getConnRecv(p)
        \/ getConnTimeout(p)
        \/ releaseEval(p)
        \/ releaseSend(p)
        \/ requestSend(p)
        \/ pingWrite(p)
        \/ response(p)
        \/ mrFirst(p)
        \/ mrLoop(p)
        \/ mpLoop(p)

SeqSpec == Init /\ [][SeqNext]_vars

\* ---- the wire view: frames ----------------------------------------------
\* message codes (message_codes.go)
rpbErrorResp    == 0
rpbPingReq      == 1
rpbListKeysReq  == 17
rpbMapRedReq    == 23

\* A length is held as two 16-bit halves, value hi * 2^16 + lo, so that the
\* 32-bit header field and Go's 64-bit int are both represented exactly.
Half == 65536

\* n + 1 in Go's int (64 bits)
Inc(n) == IF n.lo = Half - 1 THEN [hi |-> n.hi + 1, lo |-> 0]
                             ELSE [hi |-> n.hi, lo |-> n.lo + 1]

\* n - 1 in Go's int (64 bits); hi = -1 stands for the value -1
Dec(n) == IF n.lo = 0 THEN [hi |-> n.hi - 1, lo |-> Half - 1]
                      ELSE [hi |-> n.hi, lo |-> n.lo - 1]

\* request() that writes len(pbmsg) in the length field, without the code byte
Header_LenOnly(code, n) ==
    <<(n.hi % Half) \div 256, n.hi % 256, n.lo \div 256, n.lo % 256, code>>

\* i := int32(len(pbmsg) + 1);
\* []byte{byte(i >> 24), byte(i >> 16), byte(i >> 8), byte(i), code}
\* (int32() keeps the low 32 bits; byte() of the shifted value keeps 8 of them)
Header(code, n) ==
    LET i32 == Inc(n)
    IN <<(i32.hi % Half) \div 256, i32.hi % 256,
         i32.lo \div 256, i32.lo % 256, code>>

\* int(msgbuf[0])<<24 + int(msgbuf[1])<<16 + int(msgbuf[2])<<8 + int(msgbuf[3])
MsgLen(msgbuf) ==
    [hi |-> msgbuf[1] * 256 + msgbuf[2], lo |-> msgbuf[3] * 256 + msgbuf[4]]

\* c.read(conn, size) on a connection that delivers avail bytes and is then
\* closed: the slice always has length size
read(avail, size) ==
    [len |-> size,
     err |-> IF size > 0 /\ avail < size THEN "EOF" ELSE "nil"]

\* message codes and payload lengths request() is tried on
ReqCodes == {rpbErrorResp, rpbPingReq, rpbListKeysReq, rpbMapRedReq, 255}
PayloadLens ==
    {[hi |-> h, lo |-> l] : h \in {0, 255, 256, 32767, 32768, 65535},
                            l \in {0, 1, 255, 256, 65534, 65535}}

\* request(): the header is built and the frame written
request_header ==
    /\ wop = "frame" /\ wpc = "encode"
    /\ whdr' = Header(wreq.code, wreq.len)
    /\ wwrites' = wwrites + 1
    /\ wpc' = "decode"
    /\ UNCHANGED <<wop, wreq, wdec, win, wtail, wpos, wacc, wret, werr,
                   wconn, wpool>>
    /\ UNCHANGED <<pool, object, dflt, rfile>>

\* a reader decodes the 5 header bytes: the length and the message code
response_header ==
    /\ wop = "frame" /\ wpc = "decode"
    /\ wdec' = [msglen |-> MsgLen(whdr), msgcode |-> whdr[5]]
    /\ werr' = read(5, 5).err
    /\ wpc' = "done"
    /\ UNCHANGED <<wop, wreq, whdr, win, wtail, wpos, wacc, wret,
                   wconn, wpool, wwrites>>
    /\ UNCHANGED <<pool, object, dflt, rfile>>

\* ---- the wire view: responses --------------------------------------------
\* What the server sends is a sequence of frames, each one of:
\*   "data"   the reader's response message; segs are its blobs (Keys of an
\*            RpbListKeysResp, the Response of an RpbMapRedResp, the content
\*            of a single response), done its Done field
\*   "bad"    the reader's response code, with a payload that does not decode
\*   "error"  rpbErrorResp with Errmsg = msg
\*   "errbad" rpbErrorResp with a payload that does not decode
\*   "ack"    rpbPingResp, rpbSetClientIdResp, rpbSetBucketResp, rpbDelResp
\*   "other"  any other message code
\*   "short"  n < 5 header bytes, then the connection is closed
\*   "cut"    a header and a part of the payload, then the connection is closed
Blobs == {"a", "b"}
Msgs  == {"e1", "e2"}

Plain(k) == [k |-> k, segs |-> <<>>, done |-> FALSE, msg |-> "", n |-> 5]

DataFrames(segs) ==
    {[k |-> "data", segs |-> s, done |-> d, msg |-> "", n |-> 5] :
        s \in segs, d \in BOOLEAN}

Frames(segs) ==
    DataFrames(segs)
      \cup {[k |-> "error", segs |-> <<>>, done |-> FALSE, msg |-> m, n |-> 5] :
              m \in Msgs}
      \cup {[k |-> "short", segs |-> <<>>, done |-> FALSE, msg |-> "", n |-> j] :
              j \in {1, 4}}
      \cup {Plain(k) : k \in {"bad", "errbad", "ack", "other", "cut"}}

\* an RpbMapRedResp carries at most one Response, an RpbListKeysResp any
\* number of Keys
OneBlob  == {<<>>} \cup {<<b>> : b \in Blobs}
KeyLists == OneBlob \cup {<<"a", "b">>}

FramesOf(k) == IF k = "mp" THEN Frames(KeyLists) ELSE Frames(OneBlob)

Streams(k) == UNION {[1..j -> FramesOf(k)] : j \in 0..MaxFrames}

\* the frame the next read meets; "closed" when the server has sent all it
\* sends and closed the connection
In == IF wpos < Len(win) THEN win[wpos + 1]
      ELSE [k |-> "closed", segs |-> <<>>, done |-> FALSE, msg |-> "", n |-> 0]

\* the next read returns (the server has sent something or closed)
Arrives == wpos < Len(win) \/ wtail = "eof"

\* err of msgbuf, err := c.read(conn, 5) followed by pbmsg, err := c.read(...)
ReadErr(f) ==
    IF read(f.n, 5).err # "nil" THEN read(f.n, 5).err
    ELSE IF read(f.n, 5).len < 5 THEN "BadResponseLength"
    ELSE IF f.k = "cut" THEN "EOF"
    ELSE "nil"

\* response() that reports every error frame with the same text
StoreErr_Fixed(f) == "StoreError"

\* errors.New(string(errResp.Errmsg))
StoreErr(f) == f.msg

\* a multi-frame reader that leaves out the data of the frame that carries done
Gather_DoneLast(acc, f) == IF f.done THEN acc ELSE acc \o f.segs

\* response = append(response, partial.Keys...) / resp = append(resp, partial.Response)
Gather(acc, f) == acc \o f.segs

\* a reader that returns what it has accumulated together with the error
Failed_Partial(acc) == acc

\* return nil, err
Failed(acc) == <<>>

\* the reader returns: response, error, connection handed to releaseConn
Returns(resp, e, conn) ==
    /\ wret' = resp
    /\ werr' = e
    /\ wconn' = conn
    /\ wpool' = Append(wpool, conn)
    /\ wpc' = "done"

\* the read position moves past the frame just read
Consume == wpos' = IF wpos < Len(win) THEN wpos + 1 ELSE wpos

\* error response() returns for a frame that was read whole
SingleErr(f) ==
    CASE f.k = "error"              -> StoreErr(f)
      [] f.k \in {"errbad", "bad"}  -> "DecodeError"
      [] OTHER                      -> "nil"

\* error mp_response()/mr_response() return for a frame that ends them
MultiErr(f) ==
    CASE f.k = "error"   -> StoreErr(f)
      [] f.k = "errbad"  -> "CannotDeserialize"
      [] f.k = "bad"     -> "DecodeError"
      [] OTHER           -> "nil"

\* response(): one frame
response_read ==
    /\ wop = "single" /\ wpc = "read"
    /\ Arrives
    /\ Consume
    /\ LET f == In
       IN \/ \* the header read returns io.EOF: re-dial, release what was dialed
             /\ read(f.n, 5).err = "EOF"
             /\ \E c \in {"c1", "nil"} : Returns(<<>>, "EOF", c)
          \/ \* short header or failed read of the payload
             /\ read(f.n, 5).err = "nil"
             /\ ReadErr(f) # "nil"
             /\ Returns(<<>>, ReadErr(f), wconn)
          \/ \* error frame, acknowledgement, or the expected message
             /\ ReadErr(f) = "nil"
             /\ f.k # "other"
             /\ Returns(IF f.k = "data" THEN f.segs ELSE <<>>, SingleErr(f), wconn)
          \/ \* another message code: its payload is unmarshalled as the
             \* expected message, which the library accepts or refuses
             /\ ReadErr(f) = "nil"
             /\ f.k = "other"
             /\ \E e \in {"nil", "DecodeError"} : Returns(<<>>, e, wconn)
    /\ UNCHANGED <<wop, wreq, whdr, wdec, win, wtail, wacc, wwrites>>
    /\ UNCHANGED <<pool, object, dflt, rfile>>

\* mp_response(): one turn of its loop
mp_response_frame ==
    /\ wop = "mp" /\ wpc = "loop"
    /\ Arrives
    /\ Consume
    /\ LET f == In
       IN \/ \* a read fails
             /\ ReadErr(f) # "nil"
             /\ Returns(Failed(wacc), ReadErr(f), wconn)
             /\ UNCHANGED wacc
          \/ \* rpbListKeysResp
             /\ ReadErr(f) = "nil"
             /\ f.k = "data"
             /\ wacc' = Gather(wacc, f)
             /\ IF f.done
                THEN Returns(Gather(wacc, f), "nil", wconn)
                ELSE UNCHANGED <<wret, werr, wconn, wpool, wpc>>
          \/ \* undecodable payload, rpbErrorResp, or any other message code
             /\ ReadErr(f) = "nil"
             /\ f.k # "data"
             /\ Returns(Failed(wacc), MultiErr(f), wconn)
             /\ UNCHANGED wacc
    /\ UNCHANGED <<wop, wreq, whdr, wdec, win, wtail, wwrites>>
    /\ UNCHANGED <<pool, object, dflt, rfile>>

\* mr_response(): the first frame
mr_response_first ==
    /\ wop = "mr" /\ wpc = "first"
    /\ Arrives
    /\ Consume
    /\ LET f == In
       IN \/ \* a read fails
             /\ ReadErr(f) # "nil"
             /\ Returns(Failed(wacc), ReadErr(f), wconn)
             /\ UNCHANGED wacc
          \/ \* rpbMapRedResp
             /\ ReadErr(f) = "nil"
             /\ f.k = "data"
             /\ wacc' = Gather(<<>>, f)
             /\ IF f.done
                THEN Returns(Gather(<<>>, f), "nil", wconn)
                ELSE /\ wpc' = "loop"
                     /\ UNCHANGED <<wret, werr, wconn, wpool>>
          \/ \* undecodable payload, rpbErrorResp, or any other message code
             /\ ReadErr(f) = "nil"
             /\ f.k # "data"
             /\ Returns(Failed(wacc), MultiErr(f), wconn)
             /\ UNCHANGED wacc
    /\ UNCHANGED <<wop, wreq, whdr, wdec, win, wtail, wwrites>>
    /\ UNCHANGED <<pool, object, dflt, rfile>>

\* mr_response(): a frame after the first; the message code is not looked at
\* and every payload is unmarshalled as an RpbMapRedResp
mr_response_loop ==
    /\ wop = "mr" /\ wpc = "loop"
    /\ Arrives
    /\ Consume
    /\ LET f == In
       IN \/ \* a read fails
             /\ ReadErr(f) # "nil"
             /\ Returns(Failed(wacc), ReadErr(f), wconn)
             /\ UNCHANGED wacc
          \/ \* rpbMapRedResp
             /\ ReadErr(f) = "nil"
             /\ f.k = "data"
             /\ wacc' = Gather(wacc, f)
             /\ IF f.done
                THEN Returns(Gather(wacc, f), "nil", wconn)
                ELSE UNCHANGED <<wret, werr, wconn, wpool, wpc>>
          \/ \* a payload the library refuses as an RpbMapRedResp
             /\ ReadErr(f) = "nil"
             /\ f.k \in {"bad", "error", "errbad", "other"}
             /\ Returns(Failed(wacc), "DecodeError", wconn)
             /\ UNCHANGED wacc
          \/ \* a payload of another message that the library accepts as an
             \* RpbMapRedResp without Response and without Done: read on
             /\ ReadErr(f) = "nil"
             /\ f.k \in {"error", "errbad", "other", "ack"}
             /\ UNCHANGED <<wacc, wret, werr, wconn, wpool, wpc>>
    /\ UNCHANGED <<wop, wreq, whdr, wdec, win, wtail, wwrites>>
    /\ UNCHANGED <<pool, object, dflt, rfile>>

\* the client at rest while one function is studied on the wire
PoolIdle ==
    /\ connected = FALSE
    /\ conn_count = 1
    /\ chanWait = 0
    /\ conns = NilChan
    /\ chans = [k \in ChanIds |-> <<>>]
    /\ nextConn = 0
    /\ closed = {}
    /\ pc = [p \in Procs |-> "idle"]
    /\ op = [p \in Procs |-> "none"]
    /\ held = [p \in Procs |-> NilConn]
    /\ ref = [p \in Procs |-> NilChan]
    /\ i = [p \in Procs |-> 0]
    /\ err = [p \in Procs |-> "nil"]
    /\ acq = [p \in Procs |-> 0]
    /\ rel = [p \in Procs |-> 0]
    /\ dials = [p \in Procs |-> 0]
    /\ sawConn = [p \in Procs |-> FALSE]
    /\ checkedOut = 0
    /\ makes = 0
    /\ solo = [p \in Procs |-> FALSE]
    /\ ops = 0

\* request() is handed a message code and a payload, or a reader is called
\* on the connection request() wrote to, with what the server sends
WireInit ==
    /\ PoolIdle
    /\ ObjIdle
    /\ DefaultIdle
    /\ FileIdle
    /\ whdr = <<>>
    /\ wdec = [msglen |-> [hi |-> 0, lo |-> 0], msgcode |-> 0]
    /\ wpos = 0
    /\ wacc = <<>>
    /\ wret = <<>>
    /\ werr = "nil"
    /\ wpool = <<>>
    /\ \/ /\ wop = "frame"
          /\ wpc = "encode"
          /\ wreq \in [code : ReqCodes, len : PayloadLens]
          /\ win = <<>>
          /\ wtail = "eof"
          /\ wconn = "none"
          /\ wwrites = 0
       \/ /\ wop \in {"single", "mr", "mp"}
          /\ wpc = (CASE wop = "single" -> "read"
                      [] wop = "mr"     -> "first"
                      [] OTHER          -> "loop")
          /\ wreq = [code |-> 0, len |-> [hi |-> 0, lo |-> 0]]
          /\ win \in Streams(wop)
          /\ wtail \in {"eof", "silent"}
          /\ wconn = "c0"
          /\ wwrites = 1

WireNext ==
    \/ request_header
    \/ response_header
    \/ response_read
    \/ mp_response_frame
    \/ mr_response_first
    \/ mr_response_loop

WireSpec == WireInit /\ [][WireNext]_vars

\* ---- the object view: what a Riak node holds ------------------------------
\* one RpbContent of a response
Content(v, ct, l, um, ix, lm) ==
    [value |-> v, content_type |-> ct, links |-> l, usermeta |-> um,
     indexes |-> ix, last_mod |-> lm]

\* the content entries of the study: a plain value, a value with a link,
\* user metadata and two values of one index, and an empty value.  A Riak
\* node stamps every value it stores, so last_mod is set in every entry.
Contents ==
    { Content("x", "text/plain", <<>>, <<>>, <<>>, "t1"),
      Content("y", "application/json", <<"l1">>, << <<"m", "1">> >>,
              << <<"i", "1">>, <<"i", "2">> >>, "t2"),
      Content("", "", <<>>, <<>>, <<>>, "t1") }

\* the values a key can hold: none, one, or siblings
ContentLists ==
    UNION { [1..n -> Contents] : n \in 0..MaxSiblings }

\* keys of a list of RpbPair
PairKeys(pairs) == { pairs[n][1] : n \in DOMAIN pairs }

\* m[key] = value for every pair in order: the last value of a key stays
ToMap(pairs) ==
    [k \in PairKeys(pairs) |->
        LET last == CHOOSE n \in DOMAIN pairs :
                        /\ pairs[n][1] = k
                        /\ \A m \in DOMAIN pairs : pairs[m][1] = k => m <= n
        IN  pairs[last][2]]

\* the values of one key, in order
RECURSIVE ValuesOf(_, _)
ValuesOf(pairs, k) ==
    IF pairs = <<>> THEN <<>>
    ELSE (IF Head(pairs)[1] = k THEN <<Head(pairs)[2]>> ELSE <<>>)
         \o ValuesOf(Tail(pairs), k)

\* m[key] = append(m[key], value) for every pair in order
ToMulti(pairs) == [k \in PairKeys(pairs) |-> ValuesOf(pairs, k)]

\* the pairs of a map, one per key
RECURSIVE PairsOf(_)
PairsOf(m) ==
    IF DOMAIN m = {} THEN <<>>
    ELSE LET k == CHOOSE k \in DOMAIN m : TRUE
         IN  << <<k, m[k]>> >> \o PairsOf([j \in DOMAIN m \ {k} |-> m[j]])

\* the pairs of a multi-valued map whose value is not already in the map
RECURSIVE MultiPairs(_, _)
MultiPairs(mm, m) ==
    IF DOMAIN mm = {} THEN <<>>
    ELSE LET k == CHOOSE k \in DOMAIN mm : TRUE
             known == IF k \in DOMAIN m THEN m[k] ELSE ""
             Fresh(v) == v # known
             vals == SelectSeq(mm[k], Fresh)
         IN  [n \in 1..Len(vals) |-> <<k, vals[n]>>]
             \o MultiPairs([j \in DOMAIN mm \ {k} |-> mm[j]], m)

\* ---- the object view: RObject ----------------------------------------------
\* &RObject{Key: key, Vclock: vclock}
RObject(key, vclock) ==
    [Key |-> key, Vclock |-> vclock, ContentType |-> "", Data |-> "",
     Links |-> <<>>, Meta |-> <<>>, Indexes |-> <<>>, MultiIndexes |-> <<>>,
     conflict |-> FALSE, Siblings |-> <<>>]

\* the body of setContent's loop over resp.Content
Sibling(content) ==
    [ContentType |-> content.content_type, Data |-> content.value,
     Links |-> content.links, Meta |-> ToMap(content.usermeta),
     Indexes |-> ToMap(content.indexes),
     MultiIndexes |-> ToMulti(content.indexes),
     LastMod |-> content.last_mod]

\* setContent choosing the first of several values
setContent_PicksFirst(o, content) ==
    IF Len(content) >= 1
    THEN [o EXCEPT
            !.conflict = FALSE,
            !.ContentType = content[1].content_type,
            !.Data = content[1].value,
            !.Links = content[1].links,
            !.Meta = ToMap(content[1].usermeta),
            !.Indexes = ToMap(content[1].indexes),
            !.MultiIndexes = ToMulti(content[1].indexes)]
    ELSE o

\* setContent raising the conflict flag for every response with content
setContent_FlagsOne(o, content) ==
    IF Len(content) > 1
    THEN [o EXCEPT
            !.conflict = TRUE,
            !.Siblings = [n \in 1..Len(content) |-> Sibling(content[n])]]
    ELSE IF Len(content) = 1
    THEN [o EXCEPT
            !.conflict = TRUE,
            !.ContentType = content[1].content_type,
            !.Data = content[1].value,
            !.Links = content[1].links,
            !.Meta = ToMap(content[1].usermeta),
            !.Indexes = ToMap(content[1].indexes),
            !.MultiIndexes = ToMulti(content[1].indexes)]
    ELSE o

\* setContent
setContent(o, content) ==
    IF Len(content) > 1
    THEN [o EXCEPT
            !.conflict = TRUE,
            !.Siblings = [n \in 1..Len(content) |-> Sibling(content[n])]]
    ELSE IF Len(content) = 1
    THEN [o EXCEPT
            !.conflict = FALSE,
            !.ContentType = content[1].content_type,
            !.Data = content[1].value,
            !.Links = content[1].links,
            !.Meta = ToMap(content[1].usermeta),
            !.Indexes = ToMap(content[1].indexes),
            !.MultiIndexes = ToMulti(content[1].indexes)]
    ELSE o

\* Bucket.Get returning an empty object on a response without content
BucketGet_NoClock(key, resp) ==
    LET o == RObject(key, resp.vclock)
    IN  IF Len(resp.content) = 0
        THEN [obj |-> RObject("", 0), err |-> "NotFound"]
        ELSE [obj |-> setContent(o, resp.content), err |-> "nil"]

\* Bucket.Get after a response was read
BucketGet(key, resp) ==
    LET o == RObject(key, resp.vclock)
    IN  IF Len(resp.content) = 0 THEN [obj |-> o, err |-> "NotFound"]
        ELSE [obj |-> setContent(o, resp.content), err |-> "nil"]

\* RObject.Reload taking the response in even when it says unchanged
RObjectReload_Always(o, resp) ==
    setContent([o EXCEPT !.Vclock = resp.vclock], resp.content)

\* RObject.Reload taking the content of the response but not its clock
RObjectReload_KeepsClock(o, resp) ==
    IF resp.unchanged THEN o
    ELSE setContent(o, resp.content)

\* RObject.Reload after a response was read
RObjectReload(o, resp) ==
    IF resp.unchanged THEN o
    ELSE setContent([o EXCEPT !.Vclock = resp.vclock], resp.content)

\* number of siblings, with data or without
SiblingCount_All(o) == Len(o.Siblings)

\* number of siblings with data
SiblingCount(o) ==
    Cardinality({ n \in DOMAIN o.Siblings : o.Siblings[n].Data # "" })

\* ---- the object view: the node answers --------------------------------------
\* RpbGetReq, with if_modified when the object has a vector clock
GetReq(key, ifmod) ==
    [kind |-> "GetReq", key |-> key, vclock |-> 0, if_modified |-> ifmod]

\* RpbPutReq without the vector clock of the object
PutReq_NoClock(o) ==
    [kind |-> "PutReq", key |-> o.Key, vclock |-> 0, if_modified |-> 0]

\* RpbPutReq as Store builds it
PutReq(o) ==
    [kind |-> "PutReq", key |-> o.Key, vclock |-> o.Vclock, if_modified |-> 0]

\* RpbDelReq as Destroy builds it
DelReq(o) ==
    [kind |-> "DelReq", key |-> o.Key, vclock |-> o.Vclock, if_modified |-> 0]

\* the content Store puts into the request
PutContent(o) ==
    Content(o.Data, o.ContentType, o.Links, PairsOf(o.Meta),
            PairsOf(o.Indexes) \o MultiPairs(o.MultiIndexes, o.Indexes), "t")

\* RpbGetResp of the node
GetResp(slot, ifmod) ==
    IF ifmod # 0 /\ ifmod = slot.vclock
    THEN [kind |-> "GetResp", content |-> <<>>, vclock |-> 0,
          unchanged |-> TRUE, key |-> ""]
    ELSE [kind |-> "GetResp", content |-> slot.content,
          vclock |-> slot.vclock, unchanged |-> FALSE, key |-> ""]

\* the key a put is stored under: the node generates one when none is sent
PutKey(req) == IF req.key = "" THEN "gen" ELSE req.key

\* what the node holds after a put: a write that has seen the current
\* values replaces them, another one adds a sibling when the bucket allows it
Put(slot, vclock, content, mult) ==
    [vclock |-> slot.vclock + 1,
     content |-> IF vclock = slot.vclock \/ slot.content = <<>> \/ ~mult
                 THEN <<content>>
                 ELSE Append(slot.content, content)]

\* RpbPutResp with return_head
PutResp(slot, req) ==
    [kind |-> "PutResp", content |-> <<>>, vclock |-> slot.vclock,
     unchanged |-> FALSE, key |-> IF req.key = "" THEN "gen" ELSE ""]

\* what the node holds after a delete
Del(slot) == [vclock |-> slot.vclock + 1, content |-> <<>>]

\* a request can fail before it is sent, and its response can be an error
Fails == {"none", "request", "response"}

\* ---- the object view: calls on an RObject -----------------------------------
\* the outcome of a call: the object, the node, the error, the messages and
\* the vector clock last received for the object
Outcome(o, st, e, req, resp, rcv) ==
    [obj |-> o, store |-> st, err |-> e, req |-> req, resp |-> resp,
     received |-> rcv]

\* bucket.Get(key)
Get(key, st, fail) ==
    LET req == GetReq(key, 0)
        resp == GetResp(st[key], 0)
        got == BucketGet(key, resp)
    IN  CASE fail = "request" ->
                Outcome(NoObject, st, "error", NoMessage, NoMessage, 0)
          [] fail = "response" ->
                Outcome(NoObject, st, "error", req, NoMessage, 0)
          [] OTHER ->
                Outcome(got.obj, st, got.err, req, resp, resp.vclock)

\* obj.Reload()
Reload(o, st, fail, rcv) ==
    LET req == GetReq(o.Key, o.Vclock)
        resp == GetResp(st[o.Key], o.Vclock)
    IN  CASE fail = "request" ->
                Outcome(o, st, "error", NoMessage, NoMessage, rcv)
          [] fail = "response" ->
                Outcome(o, st, "error", req, NoMessage, rcv)
          [] OTHER ->
                Outcome(RObjectReload(o, resp), st, "nil", req, resp,
                        IF resp.unchanged THEN rcv ELSE resp.vclock)

\* obj.Store() that never reads the key of the response
Store_KeepsKey(o, st, fail, mult, rcv) ==
    LET req == PutReq(o)
        k == PutKey(req)
        put == [st EXCEPT ![k] = Put(@, req.vclock, PutContent(o), mult)]
        resp == PutResp(put[k], req)
    IN  CASE fail = "request" ->
                Outcome(o, st, "error", NoMessage, NoMessage, rcv)
          [] fail = "response" ->
                Outcome(o, st, "error", req, NoMessage, rcv)
          [] OTHER ->
                Outcome([o EXCEPT !.Vclock = resp.vclock],
                        put, "nil", req, resp, resp.vclock)

\* obj.Store()
Store(o, st, fail, mult, rcv) ==
    LET req == PutReq(o)
        k == PutKey(req)
        put == [st EXCEPT ![k] = Put(@, req.vclock, PutContent(o), mult)]
        resp == PutResp(put[k], req)
    IN  CASE fail = "request" ->
                Outcome(o, st, "error", NoMessage, NoMessage, rcv)
          [] fail = "response" ->
                Outcome(o, st, "error", req, NoMessage, rcv)
          [] OTHER ->
                Outcome([o EXCEPT !.Vclock = resp.vclock,
                                  !.Key = IF @ = "" THEN resp.key ELSE @],
                        put, "nil", req, resp, resp.vclock)

\* obj.Destroy()
Destroy(o, st, fail, rcv) ==
    LET req == DelReq(o)
    IN  CASE fail = "request" ->
                Outcome(o, st, "error", NoMessage, NoMessage, rcv)
          [] fail = "response" ->
                Outcome(o, st, "error", req, NoMessage, rcv)
          [] OTHER ->
                Outcome(o, [st EXCEPT ![o.Key] = Del(@)], "nil", req,
                        NoMessage, rcv)

\* the node takes the put: the clocks and the siblings of the study are bounded
Puts(o, st, mult) ==
    LET k == PutKey(PutReq(o))
    IN  /\ o.Key = "" => st["gen"].vclock = 0
        /\ st[k].vclock < MaxClock
        /\ (mult /\ o.Vclock # st[k].vclock) =>
                Len(st[k].content) < MaxSiblings

\* the application may call: the bound of the study is not reached
CanCall == ocalls < olimit

\* the application holds plain objects, or works through a model
PlainObject == ~robject
Modelled == robject \/ obj = NoObject

\* the call returns
Called(name, out) ==
    /\ oop' = name
    /\ oerr' = out.err
    /\ oreq' = out.req
    /\ oresp' = out.resp
    /\ obj' = out.obj
    /\ store' = out.store
    /\ received' = out.received
    /\ ocalls' = ocalls + 1
    /\ oprev' = <<oop, oerr>>

\* obj := bucket.NewObject(key), then the application sets the value
bucket_NewObject(key, v) ==
    /\ CanCall
    /\ PlainObject
    /\ Called("NewObject",
              Outcome([RObject(key, 0) EXCEPT !.Data = v,
                                              !.ContentType = "text/plain"],
                      store, "nil", NoMessage, NoMessage, 0))
    /\ UNCHANGED <<robject, hasResolve, olimit, dest, resolves, rcount, slice>>
    /\ UNCHANGED <<pool, wire, dflt, rfile>>

\* the application assigns obj.Data
SetData(v) ==
    /\ CanCall
    /\ PlainObject
    /\ obj # NoObject
    /\ obj.Data # v
    /\ Called("SetData",
              Outcome([obj EXCEPT !.Data = v], store, "nil", NoMessage,
                      NoMessage, received))
    /\ UNCHANGED <<robject, hasResolve, olimit, dest, resolves, rcount, slice>>
    /\ UNCHANGED <<pool, wire, dflt, rfile>>

\* obj, err = bucket.Get("k")
bucket_Get(fail) ==
    /\ CanCall
    /\ PlainObject
    /\ Called("Get", Get("k", store, fail))
    /\ UNCHANGED <<robject, hasResolve, olimit, dest, resolves, rcount, slice>>
    /\ UNCHANGED <<pool, wire, dflt, rfile>>

\* err = obj.Reload()
obj_Reload(fail) ==
    /\ CanCall
    /\ PlainObject
    /\ obj # NoObject
    /\ obj.Key \in Keys
    /\ Called("Reload", Reload(obj, store, fail, received))
    /\ UNCHANGED <<robject, hasResolve, olimit, dest, resolves, rcount, slice>>
    /\ UNCHANGED <<pool, wire, dflt, rfile>>

\* err = obj.Store()
obj_Store(fail, mult) ==
    /\ CanCall
    /\ PlainObject
    /\ obj # NoObject
    /\ Puts(obj, store, mult)
    /\ Called("Store", Store(obj, store, fail, mult, received))
    /\ UNCHANGED <<robject, hasResolve, olimit, dest, resolves, rcount, slice>>
    /\ UNCHANGED <<pool, wire, dflt, rfile>>

\* err = obj.Destroy()
obj_Destroy(fail) ==
    /\ CanCall
    /\ PlainObject
    /\ obj # NoObject
    /\ obj.Key \in Keys
    /\ store[obj.Key].vclock < MaxClock
    /\ Called("Destroy", Destroy(obj, store, fail, received))
    /\ UNCHANGED <<robject, hasResolve, olimit, dest, resolves, rcount, slice>>
    /\ UNCHANGED <<pool, wire, dflt, rfile>>

\* ---- the object view: another client of the node ----------------------------
\* a second party stores a value under "k": it replaces what the node holds
\* (stored with the clock of a Get, or on a bucket that keeps one value), or
\* it becomes a sibling (stored without a clock on a bucket with allow_mult)
OtherStore(content, mult) ==
    /\ store["k"].vclock < MaxClock
    /\ (mult /\ store["k"].vclock # 0) =>
            Len(store["k"].content) < MaxSiblings
    /\ store' = [store EXCEPT
                    !["k"] = Put(@, IF mult THEN 0 ELSE @.vclock, content,
                                 mult)]
    /\ UNCHANGED <<obj, robject, hasResolve, olimit, dest, oop, oerr, oreq, oresp,
                   resolves, rcount, received, ocalls, slice, oprev>>
    /\ UNCHANGED <<pool, wire, dflt, rfile>>

\* a second party deletes "k"
OtherDelete ==
    /\ store["k"].vclock < MaxClock
    /\ store["k"].content # <<>>
    /\ store' = [store EXCEPT !["k"] = Del(@)]
    /\ UNCHANGED <<obj, robject, hasResolve, olimit, dest, oop, oerr, oreq, oresp,
                   resolves, rcount, received, ocalls, slice, oprev>>
    /\ UNCHANGED <<pool, wire, dflt, rfile>>

\* ---- the object view: models --------------------------------------------------
\* json.Marshal of the struct and json.Unmarshal of a value: the zero struct
\* is the document "{}"
Marshal(d) == IF d = "" THEN "{}" ELSE d
Unmarshal(s) == IF s = "{}" THEN "" ELSE s

\* mapData: an empty value is no document, the struct stays as it is
mapData(d, data) ==
    IF data = "" THEN [dest |-> d, err |-> "warning"]
    ELSE [dest |-> Unmarshal(data), err |-> "nil"]

\* what a Resolve defined by the application may return
ResolveResults == {"nil", "ResolveError"}

\* dest.Resolve(count) that settles the conflict when the type has no Resolve
Resolve_Default(d, r) ==
    IF ~hasResolve THEN [dest |-> "merged", err |-> "nil"]
    ELSE [dest |-> IF r = "nil" THEN "merged" ELSE d, err |-> r]

\* dest.Resolve(count): the method of the embedded Model unless the type of
\* the struct defines its own, which merges the siblings into the struct
Resolve(d, r) ==
    IF ~hasResolve THEN [dest |-> d, err |-> "ResolveNotImplemented"]
    ELSE [dest |-> IF r = "nil" THEN "merged" ELSE d, err |-> r]

\* the application assigns the fields of the struct
SetFields(v) ==
    /\ CanCall
    /\ Modelled
    /\ dest # v
    /\ dest' = v
    /\ Called("SetFields",
              Outcome(obj, store, "nil", NoMessage, NoMessage, received))
    /\ resolves' = 0
    /\ rcount' = 0
    /\ UNCHANGED <<robject, hasResolve, olimit, slice>>
    /\ UNCHANGED <<pool, wire, dflt, rfile>>

\* client.NewModel(key, dest)
NewModelIn(key) ==
    /\ CanCall
    /\ Modelled
    /\ IF robject
       THEN Called("NewModel",
                   Outcome(obj, store, "ModelNotNew", NoMessage, NoMessage,
                           received))
       ELSE Called("NewModel",
                   Outcome([RObject(key, 0) EXCEPT
                                !.ContentType = "application/json"],
                           store, "nil", NoMessage, NoMessage, 0))
    /\ robject' = TRUE
    /\ resolves' = 0
    /\ rcount' = 0
    /\ UNCHANGED <<hasResolve, olimit, dest, slice>>
    /\ UNCHANGED <<pool, wire, dflt, rfile>>

\* LoadModelFrom that takes the object out of conflict when Resolve fails
LoadModelFrom_ClearsOnError(fail, r) ==
    /\ CanCall
    /\ Modelled
    /\ LET got == Get("k", store, fail)
       IN  IF got.err # "nil"
           THEN /\ IF got.obj # NoObject
                   THEN /\ Called("Load", got)
                        /\ robject' = TRUE
                   ELSE /\ Called("Load", [got EXCEPT !.obj = obj,
                                                    !.received = received])
                        /\ UNCHANGED robject
                /\ resolves' = 0
                /\ rcount' = 0
                /\ UNCHANGED dest
           ELSE IF got.obj.conflict
           THEN LET res == Resolve(dest, r)
                IN  /\ Called("Load",
                              [got EXCEPT !.err = res.err,
                                          !.obj.conflict = res.err = "nil"])
                    /\ robject' = TRUE
                    /\ resolves' = 1
                    /\ rcount' = SiblingCount(got.obj)
                    /\ dest' = res.dest
           ELSE LET md == mapData(dest, got.obj.Data)
                IN  /\ Called("Load", [got EXCEPT !.err = md.err])
                    /\ robject' = TRUE
                    /\ resolves' = 0
                    /\ rcount' = 0
                    /\ dest' = md.dest
    /\ UNCHANGED <<hasResolve, olimit, slice>>
    /\ UNCHANGED <<pool, wire, dflt, rfile>>

\* client.LoadModelFrom(bucketname, "k", dest)
LoadModelFrom(fail, r) ==
    /\ CanCall
    /\ Modelled
    /\ LET got == Get("k", store, fail)
       IN  IF got.err # "nil"
           THEN /\ IF got.obj # NoObject
                   THEN /\ Called("Load", got)
                        /\ robject' = TRUE
                   ELSE /\ Called("Load", [got EXCEPT !.obj = obj,
                                                    !.received = received])
                        /\ UNCHANGED robject
                /\ resolves' = 0
                /\ rcount' = 0
                /\ UNCHANGED dest
           ELSE IF got.obj.conflict
           THEN LET res == Resolve(dest, r)
                IN  /\ Called("Load", [got EXCEPT !.err = res.err])
                    /\ robject' = TRUE
                    /\ resolves' = 1
                    /\ rcount' = SiblingCount(got.obj)
                    /\ dest' = res.dest
           ELSE LET md == mapData(dest, got.obj.Data)
                IN  /\ Called("Load", [got EXCEPT !.err = md.err])
                    /\ robject' = TRUE
                    /\ resolves' = 0
                    /\ rcount' = 0
                    /\ dest' = md.dest
    /\ UNCHANGED <<hasResolve, olimit, slice>>
    /\ UNCHANGED <<pool, wire, dflt, rfile>>

\* SaveAs that stores the object without the fields of the struct
SaveAs_KeepsData(newKey, fail, mult) ==
    /\ CanCall
    /\ Modelled
    /\ IF ~robject
       THEN Called("Save",
                   Outcome(obj, store, "DestinationNotInitialized",
                           NoMessage, NoMessage, received))
       ELSE LET o == [obj EXCEPT !.Links = <<>>,
                                 !.ContentType = "application/json",
                                 !.Key = IF newKey # "" THEN newKey ELSE @]
            IN  /\ Puts(o, store, mult)
                /\ Called("Save", Store(o, store, fail, mult, received))
    /\ resolves' = 0
    /\ rcount' = 0
    /\ UNCHANGED <<robject, hasResolve, olimit, dest, slice>>
    /\ UNCHANGED <<pool, wire, dflt, rfile>>

\* client.SaveAs(newKey, dest)
SaveAs(newKey, fail, mult) ==
    /\ CanCall
    /\ Modelled
    /\ IF ~robject
       THEN Called("Save",
                   Outcome(obj, store, "DestinationNotInitialized",
                           NoMessage, NoMessage, received))
       ELSE LET o == [obj EXCEPT !.Links = <<>>,
                                 !.Data = Marshal(dest),
                                 !.ContentType = "application/json",
                                 !.Key = IF newKey # "" THEN newKey ELSE @]
            IN  /\ Puts(o, store, mult)
                /\ Called("Save", Store(o, store, fail, mult, received))
    /\ resolves' = 0
    /\ rcount' = 0
    /\ UNCHANGED <<robject, hasResolve, olimit, dest, slice>>
    /\ UNCHANGED <<pool, wire, dflt, rfile>>

\* m.Delete()
Model_Delete(fail) ==
    /\ CanCall
    /\ robject
    /\ obj.Key \in Keys
    /\ store[obj.Key].vclock < MaxClock
    /\ Called("Delete", Destroy(obj, store, fail, received))
    /\ resolves' = 0
    /\ rcount' = 0
    /\ UNCHANGED <<robject, hasResolve, olimit, dest, slice>>
    /\ UNCHANGED <<pool, wire, dflt, rfile>>

\* m.Reload()
Model_Reload(fail, r) ==
    /\ CanCall
    /\ robject
    /\ obj.Key \in Keys
    /\ LET vclock == obj.Vclock
           out == Reload(obj, store, fail, received)
       IN  IF out.err # "nil" \/ out.obj.Vclock = vclock
           THEN /\ Called("Reload", out)
                /\ resolves' = 0
                /\ rcount' = 0
                /\ UNCHANGED dest
           ELSE IF out.obj.conflict
           THEN LET res == Resolve(dest, r)
                IN  /\ Called("Reload", [out EXCEPT !.err = res.err])
                    /\ resolves' = 1
                    /\ rcount' = SiblingCount(out.obj)
                    /\ dest' = res.dest
           ELSE LET md == mapData(dest, out.obj.Data)
                IN  /\ Called("Reload", [out EXCEPT !.err = md.err])
                    /\ resolves' = 0
                    /\ rcount' = 0
                    /\ dest' = md.dest
    /\ UNCHANGED <<robject, hasResolve, olimit, slice>>
    /\ UNCHANGED <<pool, wire, dflt, rfile>>

\* the values GetSiblings maps onto the elements of the slice
SiblingData(o) ==
    LET HasData(s) == s.Data # ""
        with == SelectSeq(o.Siblings, HasData)
    IN  [n \in 1..Len(with) |-> Unmarshal(with[n].Data)]

\* m.GetSiblings(dest) with a slice of n elements of the type of the struct
GetSiblings(n) ==
    /\ CanCall
    /\ Modelled
    /\ LET count == IF robject THEN SiblingCount(obj) ELSE 0
           e == IF ~robject THEN "DestinationNotInitialized"
                ELSE IF count = 0 THEN "NoSiblingData"
                ELSE IF n # count THEN "DestinationLengthError"
                ELSE "nil"
       IN  /\ Called("GetSiblings",
                     Outcome(obj, store, e, NoMessage, NoMessage, received))
           /\ slice' = IF e = "nil" THEN SiblingData(obj)
                       ELSE [k \in 1..n |-> ""]
    /\ resolves' = 0
    /\ rcount' = 0
    /\ UNCHANGED <<robject, hasResolve, olimit, dest>>
    /\ UNCHANGED <<pool, wire, dflt, rfile>>

\* ---- the object view: the system ----------------------------------------------
\* values an application writes
Values == {"x", "y"}

\* the node holds something under "k", or nothing, or the clock of a deleted
\* value, and the type of the struct has a Resolve of its own or not
ObjInit ==
    /\ PoolIdle
    /\ WireIdle
    /\ DefaultIdle
    /\ FileIdle
    /\ \E c \in ContentLists, v \in 0..1 :
            store = [k \in Keys |->
                       IF k = "k"
                       THEN [vclock |-> IF c = <<>> THEN v ELSE 1,
                             content |-> c]
                       ELSE [vclock |-> 0, content |-> <<>>]]
    /\ obj = NoObject
    /\ robject = FALSE
    /\ hasResolve \in BOOLEAN
    /\ dest = ""
    /\ oop = "none"
    /\ oerr = "nil"
    /\ oreq = NoMessage
    /\ oresp = NoMessage
    /\ resolves = 0
    /\ rcount = 0
    /\ received = 0
    /\ ocalls = 0
    /\ slice = <<>>
    /\ oprev = <<"none", "nil">>
    /\ olimit = MaxCalls

ObjNext ==
    \/ \E key \in {"", "k"}, v \in Values : bucket_NewObject(key, v)
    \/ \E v \in Values : SetData(v)
    \/ \E fail \in Fails : bucket_Get(fail)
    \/ \E fail \in Fails : obj_Reload(fail)
    \/ \E fail \in Fails, mult \in BOOLEAN : obj_Store(fail, mult)
    \/ \E fail \in Fails : obj_Destroy(fail)
    \/ \E v \in Values : SetFields(v)
    \/ \E key \in {"", "k"} : NewModelIn(key)
    \/ \E fail \in Fails, r \in ResolveResults : LoadModelFrom(fail, r)
    \/ \E newKey \in {"", "k"}, fail \in Fails, mult \in BOOLEAN :
            SaveAs(newKey, fail, mult)
    \/ \E fail \in Fails : Model_Delete(fail)
    \/ \E fail \in Fails, r \in ResolveResults : Model_Reload(fail, r)
    \/ \E n \in 0..(MaxSiblings + 1) : GetSiblings(n)
    \/ \E content \in Contents, mult \in BOOLEAN : OtherStore(content, mult)
    \/ OtherDelete

ObjSpec == ObjInit /\ [][ObjNext]_vars

\* ---- vocabulary of the properties ---------------------------------------
ReaderPcs   == {"s_read", "m_first", "m_loop", "p_loop"}
ClosePcs    == {"c_chk", "c_eval", "c_recv", "c_mark"}
ConnectErrs == {"ResolveError", "BadNumberOfConnections", "DialError"}
ReadResults == FrameErrors \cup {"nil"}

\* connections sitting in channel k
InChan(k) == {chans[k][n] : n \in 1..Len(chans[k])}
\* connection c sits in some channel
InPool(c) == \E k \in ChanIds : c \in InChan(k)
\* connections available in the client's pool
Available == IF conns = NilChan THEN 0 ELSE Len(chans[conns])
\* goroutine p waits for a response on a connection it received from the pool
InFlight(p) == pc[p] \in ReaderPcs /\ held[p] # NilConn

\* ---- C1 ------------------------------------------------------------------
\* C1: on a connected client with conn_count >= 1, whose pool was built by one
\* Connect and which no goroutine is closing with a Close() call of its own,
\* the connections checked out (received in getConn and not yet sent back by
\* releaseConn) never exceed conn_count, and checked out plus available in
\* the pool equals conn_count.
C1_PoolSize ==
    (/\ connected
     /\ conn_count >= 1
     /\ makes = 1
     /\ \A p \in Procs : op[p] # "close")
        => /\ checkedOut <= conn_count
           /\ checkedOut + Available = conn_count

C3_ReleasedOnReturn ==
    \A p \in Procs :
        (pc[p] = "done" /\ op[p] \in ReqKinds /\ acq[p] = 1) => rel[p] = 1

C5_PoolServes ==
    (/\ \A p \in Procs : pc[p] = "idle"
     /\ connected
     /\ makes = 1)
        => Available = conn_count

\* ---- C6 ------------------------------------------------------------------
\* C6: a goroutine leaves the receive of getConn either with the connection
\* at the head of the channel, or, only when chanWait > 0 and nothing is there
\* to receive, with ChanWaitTimeout: then it holds no connection, nothing is
\* sent, and connected, c.conns and the pool's contents are unchanged. With
\* chanWait = 0 and nothing to receive it does not leave the receive.
C6_Leaves(p) ==
    (pc[p] = "g_recv" /\ pc'[p] # "g_recv") =>
        IF CanRecv(ref[p])
        THEN /\ held'[p] = Head(chans[ref[p]])
             /\ err'[p] = "nil"
             /\ pc'[p] = "q_send"
        ELSE /\ chanWait > 0
             /\ err'[p] = "ChanWaitTimeout"
             /\ pc'[p] = "done"
             /\ held'[p] = NilConn
             /\ acq'[p] = 0
             /\ checkedOut' = checkedOut
             /\ connected' = connected
             /\ conns' = conns
             /\ conns # NilChan => chans'[conns] = chans[conns]

C6_WaitTimeout == [][\A p \in Procs : C6_Leaves(p)]_vars

\* a request timed out while the other goroutine's request holds a connection
C6_Witness ==
    \E p, q \in Procs :
        /\ pc[p] = "done" /\ err[p] = "ChanWaitTimeout" /\ acq[p] = 0
        /\ InFlight(q)
        /\ connected

\* ---- C7 ------------------------------------------------------------------
\* C7: pool of 2 built by one Connect and not being closed, one connection
\* checked out by a request that waits for its response: a second request
\* that reaches the receive of getConn finds a connection to receive at once,
\* and it is not the connection of the first.
C7_SecondConnection ==
    (/\ conn_count = 2
     /\ connected
     /\ makes = 1
     /\ checkedOut = 1
     /\ \A r \in Procs : pc[r] \notin ClosePcs)
        => \A p, q \in Procs :
              (p # q /\ InFlight(p) /\ pc[q] = "g_recv") =>
                  /\ CanRecv(ref[q])
                  /\ Head(chans[ref[q]]) # held[p]

\* the second request has returned successfully while the first, which built
\* the pool, still waits for its response
C7_Witness ==
    \E p, q \in Procs :
        /\ p # q
        /\ conn_count = 2 /\ makes = 1
        /\ InFlight(p) /\ dials[p] = 2
        /\ pc[q] = "done" /\ err[q] = "nil" /\ acq[q] = 1 /\ rel[q] = 1

\* ---- C8 ------------------------------------------------------------------
\* C8: getConn on a client that is not connected enters tcpConnect; when that
\* Connect fails the operation returns its error without a connection, and,
\* no other goroutine being inside the client, the client is not connected;
\* the next tcpConnect starts from a new empty channel, not from the
\* connections the failed one had dialed.
C8_Returned ==
    \A p \in Procs :
        (/\ pc[p] = "done"
         /\ solo[p]
         /\ op[p] \in ReqKinds \cup {"ping"}
         /\ err[p] \in ConnectErrs)
            => /\ ~connected
               /\ acq[p] = 0
               /\ held[p] = NilConn

C8_Reconnects(p) ==
    /\ (pc[p] = "g_chk" /\ ~connected /\ pc'[p] # "g_chk") => pc'[p] = "t_resolve"
    /\ (pc[p] = "t_make" /\ pc'[p] # "t_make") =>
            /\ conns' # conns
            /\ chans'[conns'] = <<>>

C8_ConnectFailure == [](C8_Returned) /\ [][\A p \in Procs : C8_Reconnects(p)]_vars

\* the second of two dials failed: one connection sits in a channel of a
\* client that is not connected
C8_Witness ==
    \E p \in Procs :
        /\ pc[p] = "done" /\ solo[p] /\ op[p] = "single"
        /\ err[p] = "DialError" /\ dials[p] = 1
        /\ ~connected /\ Available = 1

\* ---- C9 ------------------------------------------------------------------
\* C9 as claimed: Connect on a client with conn_count <= 0 fails with
\* BadNumberOfConnections, without a dial, and the client is not connected.
C9_Original ==
    \A p \in Procs :
        (pc[p] = "done" /\ op[p] = "connect" /\ conn_count <= 0)
            => /\ err[p] = "BadNumberOfConnections"
               /\ dials[p] = 0
               /\ ~connected

\* C9 amended: on a client with conn_count <= 0 no tcpConnect gets past its
\* first checks, so that nothing is dialed and the client is never connected;
\* Connect fails with BadNumberOfConnections, or with the resolution error
\* when the address does not resolve (the address is resolved first).
C9_BadCount ==
    conn_count <= 0 =>
        /\ ~connected
        /\ nextConn = 0
        /\ conns = NilChan
        /\ \A p \in Procs :
              /\ pc[p] \notin {"t_make", "t_dial", "t_send", "t_mark"}
              /\ (pc[p] = "done" /\ op[p] # "close") =>
                    err[p] \in {"BadNumberOfConnections", "ResolveError"}

C9_Witness ==
    \E p \in Procs :
        /\ conn_count <= 0
        /\ pc[p] = "done" /\ op[p] = "connect"
        /\ err[p] = "BadNumberOfConnections"

\* ---- C10 -----------------------------------------------------------------
\* C10 as claimed: a Connect that finds the client connected dials exactly
\* conn_count new connections (after closing the existing ones).
C10_Original ==
    \A p \in Procs :
        (pc[p] = "done" /\ op[p] = "connect" /\ sawConn[p] /\ err[p] = "nil")
            => dials[p] = conn_count

\* C10 amended: a Connect that finds the client connected closes nothing and
\* dials nothing: it goes straight to c.connected = true and leaves c.conns,
\* the pool's contents and every connection as they are; run alone, it
\* returns nil on a client that is still connected.
C10_Skips(p) ==
    (pc[p] = "t_resolve" /\ connected /\ pc'[p] \notin {"t_resolve", "done"}) =>
        /\ pc'[p] = "t_mark"
        /\ UNCHANGED <<conns, chans, closed, nextConn, connected>>

C10_Connected ==
    \A p \in Procs :
        (op[p] = "connect" /\ sawConn[p]) =>
            /\ pc[p] \in {"t_mark", "done"}
            /\ dials[p] = 0
            /\ err[p] = "nil"
            /\ (solo[p] /\ pc[p] = "done") => connected

C10_ConnectWhenConnected ==
    [](C10_Connected) /\ [][\A p \in Procs : C10_Skips(p)]_vars

\* a second Connect, alone, returned on the connected client with its pool
C10_Witness ==
    \E p \in Procs :
        /\ pc[p] = "done" /\ op[p] = "connect" /\ sawConn[p] /\ solo[p]
        /\ connected /\ Available = conn_count /\ dials[p] = 0

\* ---- C11 -----------------------------------------------------------------
\* positions of tcpConnect between the creation of the channel and the last
\* send of a dialed connection
DialPcs == {"t_make", "t_dial", "t_send"}

\* connections that sit in a channel or in a goroutine's hands
InUse == {c \in ConnIds : InPool(c) \/ \E p \in Procs : held[p] = c}

\* C11: at most one of the goroutines that entered tcpConnect from getConn
\* builds the pool at a time (creates the channel and dials into it); a goroutine that waits to receive or to send waits on
\* the channel c.conns points to, never on a discarded one; and the pool and
\* the goroutines together never have more than conn_count connections.
C11_ExclusiveReconnect ==
    /\ \A p, q \in Procs :
          (/\ op[p] # "connect" /\ pc[p] \in DialPcs
           /\ op[q] # "connect" /\ pc[q] \in DialPcs) => p = q
    /\ \A p \in Procs :
          pc[p] \in {"g_recv", "r_send", "c_recv"} => ref[p] = conns
    /\ conn_count >= 1 => Cardinality(InUse) <= conn_count

\* ---- C12 -----------------------------------------------------------------
\* C12: a request, alone in the client, whose write failed with a broken pipe
\* goes through Close() to its return: at every receive of that Close there is
\* a connection to receive, and when it has returned the error the client is
\* not connected.
C12_BrokenPipe ==
    \A p \in Procs :
        (solo[p] /\ op[p] \in ReqKinds /\ err[p] = "EPIPE") =>
            /\ pc[p] = "c_recv" => CanRecv(ref[p])
            /\ pc[p] = "done" => ~connected

\* ---- C13 -----------------------------------------------------------------
\* C13: whenever response() ends with end-of-stream, the connection it hands
\* to releaseConn is not the one the read failed on (it was dialed anew, once),
\* the connections in the pool are untouched and the client stays connected.
C13_Redials(p) ==
    (pc[p] = "s_read" /\ pc'[p] = "r_eval" /\ err'[p] = "EOF") =>
        /\ held'[p] # held[p]
        /\ nextConn' <= nextConn + 1
        /\ chans' = chans
        /\ connected' = connected

C13_EndOfStream == [][\A p \in Procs : C13_Redials(p)]_vars

\* ---- C14 -----------------------------------------------------------------
\* C14 (one goroutine): Close() on a client that is not connected (never
\* connected, failed to connect, or closed before) returns at once and changes
\* nothing; Close() on a connected client with all conn_count connections in
\* the pool finds a connection at each of its receives; and when Close() has
\* returned the client is not connected and no error was raised.
C14_Closed ==
    \A p \in Procs :
        (op[p] = "close" /\ pc[p] = "done") => (~connected /\ err[p] = "nil")

C14_NoBlock ==
    \A p \in Procs :
        (op[p] = "close" /\ pc[p] = "c_recv" /\ Available + i[p] = conn_count)
            => (CanRecv(ref[p]) /\ ref[p] = conns)

C14_Step(p) ==
    /\ (op[p] = "close" /\ pc[p] = "c_chk" /\ ~connected /\ pc'[p] # "c_chk") =>
            (pc'[p] = "done" /\ UNCHANGED shared)
    /\ (/\ op[p] = "close" /\ pc[p] \in {"c_eval", "c_recv"}
        /\ Available + i[p] = conn_count) =>
            Available' + i'[p] = conn_count

C14_IdempotentClose ==
    [](C14_Closed /\ C14_NoBlock) /\ [][\A p \in Procs : C14_Step(p)]_vars

\* the third operation is a Close() that returned at once, on a client whose
\* two connections the Close() before it had closed
C14_Witness ==
    \E p \in Procs :
        /\ op[p] = "close" /\ pc[p] = "done" /\ i[p] = 0
        /\ ops = 3 /\ conn_count = 2
        /\ ~connected /\ closed = {1, 2}

\* ---- vocabulary of the wire properties ----------------------------------
\* header bytes the connection returned for the single response that was read
HeaderBytes == IF Len(win) >= 1 THEN win[1].n ELSE 0

\* frames 1..d are data frames and d is the first that carries done
DoneAt(d) ==
    /\ d \in 1..Len(win)
    /\ win[d].k = "data" /\ win[d].done
    /\ \A j \in 1..(d - 1) : win[j].k = "data" /\ ~win[j].done

\* frame e is an error frame and the frames before it are data frames
\* without done
ErrorAt(e) ==
    /\ e \in 1..Len(win)
    /\ win[e].k = "error"
    /\ \A j \in 1..(e - 1) : win[j].k = "data" /\ ~win[j].done

\* the segments of frames 1..d, in the order received
RECURSIVE Segments(_)
Segments(d) == IF d = 0 THEN <<>> ELSE Segments(d - 1) \o win[d].segs

\* ---- C15 -----------------------------------------------------------------
\* C15 as claimed: for every message code and payload the header is the
\* big-endian value len(payload) + 1 followed by the code, and decoding it
\* gives back the code and a length that, minus 1, is len(payload).
C15_Original ==
    (wop = "frame" /\ wpc = "done") =>
        /\ Len(whdr) = 5
        /\ MsgLen(whdr) = Inc(wreq.len)
        /\ whdr[5] = wreq.code
        /\ wdec.msgcode = wreq.code
        /\ Dec(wdec.msglen) = wreq.len

\* C15 amended: the same for every message code and every payload whose
\* length plus 1 fits the 32-bit length field (at most 2^32 - 2 bytes).
C15_RoundTrip ==
    (wop = "frame" /\ wpc = "done" /\ Inc(wreq.len).hi < Half) =>
        /\ Len(whdr) = 5
        /\ \A j \in 1..5 : whdr[j] \in 0..255
        /\ MsgLen(whdr) = Inc(wreq.len)
        /\ whdr[5] = wreq.code
        /\ wdec.msgcode = wreq.code
        /\ Dec(wdec.msglen) = wreq.len
        /\ werr = "nil"

\* a payload of 2^31 - 1 bytes (the int32 length is negative) under code 255
C15_Witness ==
    /\ wop = "frame" /\ wpc = "done"
    /\ wreq = [code |-> 255, len |-> [hi |-> 32767, lo |-> 65535]]
    /\ whdr = <<128, 0, 0, 0, 255>>
    /\ Dec(wdec.msglen) = wreq.len

\* ---- C16 -----------------------------------------------------------------
\* C16: when the frame response() reads carries the error code (and its
\* payload decodes), response() returns an error whose text is the Errmsg of
\* the frame and no response; nothing was written besides the request, no
\* further frame was read, and the connection the request was sent on was
\* handed to releaseConn once, as it was.
C16_ErrorFrame ==
    (wop = "single" /\ wpc = "done" /\ Len(win) >= 1 /\ win[1].k = "error") =>
        /\ werr = win[1].msg
        /\ wret = <<>>
        /\ wwrites = 1
        /\ wpos = 1
        /\ wconn = "c0"
        /\ wpool = <<"c0">>

C16_Witness ==
    /\ wop = "single" /\ wpc = "done"
    /\ Len(win) = 2 /\ win[1].k = "error" /\ win[1].msg = "e2"
    /\ werr = "e2" /\ wpool = <<"c0">>

\* ---- C17 -----------------------------------------------------------------
\* C17: when the connection returned some but fewer than 5 header bytes,
\* response() returns BadResponseLength.
C17_ShortResponse ==
    (wop = "single" /\ wpc = "done" /\ HeaderBytes \in 1..4) =>
        werr = "BadResponseLength"

\* ---- C18 -----------------------------------------------------------------
\* C18: when the frames up to the first one that carries done are all data
\* frames, mr_response and mp_response read no frame beyond it, and return
\* without error the segments of those frames in the order received, those
\* of the frame that carries done included.
C18_Accumulates ==
    wop \in {"mr", "mp"} =>
        \A d \in 1..Len(win) :
            DoneAt(d) =>
                /\ wpos <= d
                /\ wpc = "done" =>
                      /\ wpos = d
                      /\ werr = "nil"
                      /\ wret = Segments(d)

\* keys "a", "b" in a first frame, key "b" with done in the second, and a
\* third frame that stays unread
C18_Witness ==
    /\ wop = "mp" /\ wpc = "done"
    /\ Len(win) = 3 /\ DoneAt(2)
    /\ win[1].segs = <<"a", "b">> /\ win[2].segs = <<"b">>
    /\ wret = <<"a", "b", "b">>

\* ---- C19 -----------------------------------------------------------------
\* C19: when mp_response meets an error frame, as first frame or after data
\* frames without done, it reads nothing more and returns an error whose
\* text is the frame's Errmsg, and no keys.
C19_ErrorAborts ==
    wop = "mp" =>
        \A e \in 1..Len(win) :
            ErrorAt(e) =>
                /\ wpos <= e
                /\ wpos = e =>
                      /\ wpc = "done"
                      /\ werr = win[e].msg
                      /\ wret = <<>>

\* the error frame came third, after two frames with keys
C19_Witness ==
    /\ wop = "mp" /\ wpc = "done"
    /\ ErrorAt(3) /\ win[3].msg = "e1"
    /\ wacc = <<"a", "b", "a">>
    /\ werr = "e1" /\ wret = <<>>

\* ---- C20 -----------------------------------------------------------------
\* C20: when mr_response meets an error frame after one or more data frames
\* without done, it reads nothing more and returns an error whose text is
\* the frame's Errmsg.
C20_MapRedErrorAborts ==
    wop = "mr" =>
        \A e \in 2..Len(win) :
            ErrorAt(e) =>
                /\ wpos <= e
                /\ wpos = e =>
                      /\ wpc = "done"
                      /\ werr = win[e].msg

\* ---- vocabulary of the object properties -----------------------------------
\* the last call was a Get of the key, directly or through a model, and it
\* read a response
Fetched == oop \in {"Get", "Load"} /\ oresp.kind = "GetResp"

\* the step is a call that sent a put
Stores == ocalls' = ocalls + 1 /\ oreq'.kind = "PutReq"

\* ---- C21 -----------------------------------------------------------------
\* what a Get that read a response without content returned
C21_Returned ==
    (Fetched /\ oresp.content = <<>>) =>
        /\ oerr = "NotFound"
        /\ obj # NoObject
        /\ obj.Vclock = oresp.vclock
        /\ oop = "Load" => robject

\* the clock a put sends right after such a Get
C21_Step ==
    (Fetched /\ oresp.content = <<>> /\ oresp.vclock # 0 /\ Stores) =>
        oreq'.vclock = oresp.vclock

\* C21: a Get whose response has no content returns NotFound together with
\* an object that carries the vector clock of the response; a model loaded
\* this way has its robject set, and a Store that follows sends that clock.
C21_NotFound == [](C21_Returned) /\ [][C21_Step]_vars

C21_Witness ==
    /\ oop = "Save" /\ oerr = "nil"
    /\ oprev = <<"Load", "NotFound">>
    /\ robject
    /\ oreq.kind = "PutReq" /\ oreq.vclock # 0

\* s (an object or a sibling) holds what the content entry c holds: value,
\* content type, links, every user metadata pair and every index value
Copies(s, c) ==
    /\ s.Data = c.value
    /\ s.ContentType = c.content_type
    /\ s.Links = c.links
    /\ DOMAIN s.Meta = PairKeys(c.usermeta)
    /\ \A n \in DOMAIN c.usermeta : s.Meta[c.usermeta[n][1]] = c.usermeta[n][2]
    /\ DOMAIN s.Indexes = PairKeys(c.indexes)
    /\ DOMAIN s.MultiIndexes = PairKeys(c.indexes)
    /\ \A n \in DOMAIN c.indexes :
          \E j \in DOMAIN s.MultiIndexes[c.indexes[n][1]] :
              s.MultiIndexes[c.indexes[n][1]][j] = c.indexes[n][2]
    /\ \A k \in DOMAIN s.Indexes :
          \E n \in DOMAIN c.indexes : c.indexes[n] = <<k, s.Indexes[k]>>

C23_ConflictHasSiblings ==
    (obj # NoObject /\ obj.conflict) => Len(obj.Siblings) >= 2

C23_Witness ==
    /\ oop \in {"Reload", "Store", "Destroy"}
    /\ oprev[1] = "Get"
    /\ oerr = "nil"
    /\ obj.conflict
    /\ Len(obj.Siblings) = 2

\* ---- C24 -----------------------------------------------------------------
\* C24: an object whose conflict flag is false has no siblings, whatever was
\* called on it; in particular after a Reload that found a single value.
C24_NoStaleSiblings ==
    (obj # NoObject /\ ~robject /\ ~obj.conflict) => obj.Siblings = <<>>

\* ---- C25 -----------------------------------------------------------------
\* what a step that sends a put does with the vector clock
C25_Step ==
    Stores =>
        /\ received # 0 => oreq'.vclock = received
        /\ oerr' = "nil" =>
              /\ oresp'.kind = "PutResp"
              /\ obj'.Vclock = oresp'.vclock

C26_Step ==
    Stores =>
        /\ oop' = "Store" => oreq'.key = obj.Key
        /\ oerr' = "nil" =>
              IF oreq'.key = ""
              THEN oresp'.key # "" /\ obj'.Key = oresp'.key
              ELSE obj'.Key = oreq'.key

\* C26: Store sends the key of the object, none when it is empty; after a
\* successful Store an object that had no key has the key of the response,
\* which is not empty, and an object that had a key still has it.
C26_AssignedKey == [][C26_Step]_vars

C26_Witness ==
    /\ oop \in {"Store", "Save"} /\ oerr = "nil"
    /\ oreq.kind = "PutReq" /\ oreq.key = ""
    /\ oresp.key = "gen"
    /\ obj.Key = "gen"
    /\ store["gen"].content # <<>>

\* the step is a Reload, of an object or of a model, that returns no error
Reloads == ocalls' = ocalls + 1 /\ oop' = "Reload" /\ oerr' = "nil"

\* ---- C27 -----------------------------------------------------------------
\* C27: a Reload of an object whose key holds on the node what it held when
\* the object got its vector clock leaves the object as it was: clock, data,
\* links, metadata, conflict flag and siblings; a model's struct is not
\* mapped again and Resolve is not called.
C27_Untouched ==
    [][(Reloads /\ obj.Key \in Keys /\ store[obj.Key].vclock = obj.Vclock) =>
          /\ obj' = obj
          /\ dest' = dest
          /\ resolves' = 0]_vars

C27_Witness ==
    /\ oop = "Reload" /\ oerr = "nil"
    /\ oreq.kind = "GetReq" /\ oreq.if_modified # 0
    /\ oresp.kind = "GetResp" /\ oresp.unchanged
    /\ obj.Vclock = oreq.if_modified
    /\ obj.Data # ""

\* ---- C28 -----------------------------------------------------------------
\* the node holds under the key of the object a value stored after the
\* object got its vector clock
StoredSince ==
    /\ obj # NoObject
    /\ obj.Key \in Keys
    /\ obj.Vclock # 0
    /\ store[obj.Key].vclock # obj.Vclock
    /\ store[obj.Key].content # <<>>

\* the value stored last under the key of the object
LastStored == store[obj.Key].content[Len(store[obj.Key].content)]

\* C28 as stated: after a second party has stored a value under the key, a
\* Reload gives the object another vector clock and the value of that party.
C28_Original ==
    [][(StoredSince /\ Reloads) =>
          /\ obj'.Vclock # obj.Vclock
          /\ obj'.Data = LastStored.value]_vars

\* C28: after a second party has stored a value under the key, a Reload gives
\* the object another vector clock, the one of the node; when the node holds
\* that value alone, the object is not in conflict and its data is that
\* value.
C28_Reloaded ==
    [][(StoredSince /\ Reloads) =>
          /\ obj'.Vclock # obj.Vclock
          /\ obj'.Vclock = store[obj.Key].vclock
          /\ Len(store[obj.Key].content) = 1 =>
                /\ ~obj'.conflict
                /\ obj'.Data = LastStored.value]_vars

C28_Witness ==
    /\ oop = "Reload" /\ oerr = "nil"
    /\ oprev = <<"Get", "nil">>
    /\ oreq.if_modified = 1
    /\ oresp.kind = "GetResp" /\ ~oresp.unchanged
    /\ oresp.vclock = 2
    /\ Len(oresp.content) = 1
    /\ obj.Vclock = 2
    /\ obj.Data = "y"

\* ---- C29 -----------------------------------------------------------------
\* the siblings of the object that have data
WithData(o) == { n \in DOMAIN o.Siblings : o.Siblings[n].Data # "" }

\* the step loads or reloads a model, reads a response that carries what the
\* node holds, and the object is in conflict afterwards
FindsConflict ==
    /\ ocalls' = ocalls + 1
    /\ oop' \in {"Load", "Reload"}
    /\ robject'
    /\ oresp'.kind = "GetResp"
    /\ ~oresp'.unchanged
    /\ obj'.conflict

\* Resolve is called once, with the number of siblings that have data
C29_Resolve ==
    FindsConflict =>
        /\ resolves' = 1
        /\ rcount' = Cardinality(WithData(obj'))

\* GetSiblings was called on a model whose object is in conflict
GotSiblings == oop = "GetSiblings" /\ robject /\ obj.conflict

\* C29 as stated: Resolve is called once with the number of siblings that
\* have data, and GetSiblings returns DestinationLengthError whenever the
\* length of the slice is not that number.
C29_Original ==
    /\ [][C29_Resolve]_vars
    /\ [](GotSiblings =>
            /\ oerr = "nil" => Len(slice) = Cardinality(WithData(obj))
            /\ Len(slice) # Cardinality(WithData(obj)) =>
                  oerr = "DestinationLengthError")

\* C29: Resolve is called once with the number of siblings that have data;
\* GetSiblings returns NoSiblingData when no sibling has data, and otherwise
\* DestinationLengthError when the length of the slice is not that number,
\* and fills the slice with the data of those siblings when it is.
C29_SiblingCount ==
    /\ [][C29_Resolve]_vars
    /\ [](GotSiblings =>
            LET count == Cardinality(WithData(obj))
            IN  /\ oerr = "nil" => Len(slice) = count
                /\ count = 0 => oerr = "NoSiblingData"
                /\ (count # 0 /\ Len(slice) # count) =>
                      oerr = "DestinationLengthError"
                /\ (count # 0 /\ Len(slice) = count) =>
                      /\ oerr = "nil"
                      /\ \A n \in WithData(obj) :
                            \E k \in DOMAIN slice :
                                slice[k] = Unmarshal(obj.Siblings[n].Data))

C29_Witness ==
    /\ GotSiblings
    /\ oprev[1] = "Load"
    /\ oerr = "DestinationLengthError"
    /\ Len(obj.Siblings) = 2
    /\ Cardinality(WithData(obj)) = 1
    /\ Len(slice) = 2

\* ---- C30 -----------------------------------------------------------------
\* C30: loading a key that holds siblings into a struct whose type has no
\* Resolve of its own returns ResolveNotImplemented; the fields of the struct
\* stay as they were, the object is in conflict with every sibling, and none
\* of them became its value.
C30_NoResolver ==
    [][(/\ ocalls' = ocalls + 1
        /\ oop' = "Load"
        /\ oresp'.kind = "GetResp"
        /\ Len(oresp'.content) > 1
        /\ ~hasResolve) =>
            /\ oerr' = "ResolveNotImplemented"
            /\ dest' = dest
            /\ robject'
            /\ obj'.conflict
            /\ Len(obj'.Siblings) = Len(oresp'.content)
            /\ obj'.Data = ""]_vars

C30_Witness ==
    /\ oop = "Load" /\ oerr = "ResolveNotImplemented"
    /\ oprev[1] = "SetFields"
    /\ ~hasResolve
    /\ Len(oresp.content) = 2
    /\ Cardinality(WithData(obj)) = 2
    /\ dest = "x"
    /\ resolves = 1

\* ---- C37 -----------------------------------------------------------------
\* C37: mr_response and mp_response return no error only after they have read
\* a frame of the expected message that carries done; a frame with another
\* message code that is not the error code does not end them without error.
C37_NilOnlyAfterDone ==
    (wop \in {"mr", "mp"} /\ wpc = "done" /\ werr = "nil") =>
        \E d \in 1..wpos : win[d].k = "data" /\ win[d].done

\* ---- C38 -----------------------------------------------------------------
\* C38: no channel of the pool holds a nil connection, and a goroutine that
\* received a connection from getConn and has not released it holds one that
\* is not nil.
C38_NoNilInPool ==
    /\ \A k \in ChanIds : NilConn \notin InChan(k)
    /\ \A p \in Procs :
          (pc[p] \in ReaderPcs /\ acq[p] > rel[p]) => held[p] # NilConn

\* ---- Close called from several goroutines ---------------------------------
\* the application connects the client once (ConnectClient / ConnectClientPool
\* build the client and call Connect)
ConnectBegin(p) ==
    /\ \A q \in Procs : pc[q] = "idle"
    /\ ops = 0
    /\ op' = [op EXCEPT ![p] = "connect"]
    /\ pc' = [pc EXCEPT ![p] = "t_resolve"]
    /\ ops' = ops + 1
    /\ solo' = [q \in Procs |-> q = p]
    /\ UNCHANGED <<shared, held, ref, i, err,
                   acq, rel, dials, sawConn, checkedOut, makes>>
    /\ UNCHANGED <<wire, object, dflt, rfile>>

\* a goroutine calls Close on the connected client, every goroutine once
CloseBegin(p) ==
    /\ pc[p] = "idle"
    /\ connected
    /\ ops <= NumProcs
    /\ op' = [op EXCEPT ![p] = "close"]
    /\ pc' = [pc EXCEPT ![p] = "c_chk"]
    /\ ops' = ops + 1
    /\ solo' = [q \in Procs |-> q = p /\ \A r \in Procs : pc[r] = "idle"]
    /\ UNCHANGED <<shared, held, ref, i, err,
                   acq, rel, dials, sawConn, checkedOut, makes>>
    /\ UNCHANGED <<wire, object, dflt, rfile>>

CloseNext ==
    \E p \in Procs :
        \/ ConnectBegin(p)
        \/ CloseBegin(p)
        \/ Return(p)
        \/ tcpResolve(p)
        \/ tcpMake(p)
        \/ tcpDial(p)
        \/ tcpSend(p)
        \/ tcpMark(p)
        \/ closeCheck(p)
        \/ closeEval(p)
        \/ closeRecv(p)
        \/ closeMark(p)

CloseSpec == Init /\ [][CloseNext]_vars

\* p waits in Close for a connection on a channel that is empty
Blocked(p) == pc[p] = "c_recv" /\ ~CanRecv(ref[p])

\* every goroutine is outside the client or waits in Close: nobody is left
\* that could send a connection
Quiet == \A q \in Procs : pc[q] \in {"idle", "done"} \/ Blocked(q)

\* ---- C39 -----------------------------------------------------------------
\* C39: when several goroutines call Close on a connected client, no Close
\* is left waiting for a connection another Close has already drained: there
\* is no state in which a Close waits on the empty channel while every other
\* goroutine has returned or waits as well.
C39_NoCloseBlocksForever ==
    ~(Quiet /\ \E p \in Procs : Blocked(p))

\* ---- C31 -----------------------------------------------------------------
\* the last call loaded or reloaded a model and called Resolve
Resolved == oop \in {"Load", "Reload"} /\ robject /\ resolves = 1

\* C31: after a Load or Reload whose Resolve returned no error, the conflict
\* flag of the object reads false and its data is the merged value, before any
\* further Get or Reload.
C31_ResolvedIsClean ==
    (Resolved /\ oerr = "nil") =>
        /\ ~obj.conflict
        /\ Unmarshal(obj.Data) = dest

\* ---- C32 -----------------------------------------------------------------
\* the step loads or reloads a model and calls Resolve
Resolves ==
    /\ ocalls' = ocalls + 1
    /\ oop' \in {"Load", "Reload"}
    /\ resolves' = 1

\* C32: when Resolve returns an error, the Load or Reload returns that error
\* and the object stays in conflict: its flag is set, and its siblings, its
\* vector clock and its other fields are what the fetch made of the response
\* before Resolve was called, so that the count handed to Resolve is still
\* the number of siblings GetSiblings maps.
C32_ResolveError ==
    [][(Resolves /\ oerr' # "nil") =>
          /\ oerr' \in {"ResolveError", "ResolveNotImplemented"}
          /\ hasResolve => oerr' = "ResolveError"
          /\ obj'.conflict
          /\ obj' = IF oop' = "Load" THEN BucketGet("k", oresp').obj
                    ELSE RObjectReload(obj, oresp')
          /\ rcount' = SiblingCount(obj')]_vars

C32_Witness ==
    /\ Resolved /\ oop = "Load" /\ oerr = "ResolveError"
    /\ hasResolve
    /\ obj.conflict
    /\ Len(obj.Siblings) = 2
    /\ obj.Siblings[1].Data # obj.Siblings[2].Data

\* ---- a model loaded, saved and loaded again -----------------------------------
\* calls of the application in a round trip: load, save, load
MaxRoundTrip == 3

\* the node holds something under "k", written by other parties
RoundInit ==
    /\ PoolIdle
    /\ WireIdle
    /\ DefaultIdle
    /\ FileIdle
    /\ \E c \in ContentLists, v \in 0..1 :
            store = [k \in Keys |->
                       IF k = "k"
                       THEN [vclock |-> IF c = <<>> THEN v ELSE 1,
                             content |-> c]
                       ELSE [vclock |-> 0, content |-> <<>>]]
    /\ obj = NoObject
    /\ robject = FALSE
    /\ hasResolve \in BOOLEAN
    /\ dest = ""
    /\ oop = "none"
    /\ oerr = "nil"
    /\ oreq = NoMessage
    /\ oresp = NoMessage
    /\ resolves = 0
    /\ rcount = 0
    /\ received = 0
    /\ ocalls = 0
    /\ slice = <<>>
    /\ oprev = <<"none", "nil">>
    /\ olimit = MaxRoundTrip

RoundNext ==
    \/ \E fail \in Fails, r \in ResolveResults : LoadModelFrom(fail, r)
    \/ \E fail \in Fails, mult \in BOOLEAN : SaveAs("", fail, mult)
    \/ \E content \in Contents, mult \in BOOLEAN : OtherStore(content, mult)

RoundSpec == RoundInit /\ [][RoundNext]_vars

\* ---- C33 -----------------------------------------------------------------
\* the last call read two values that differ under the key
ReadTwo ==
    /\ Fetched
    /\ Len(oresp.content) = 2
    /\ oresp.content[1].value # oresp.content[2].value

\* the model was loaded with a conflict its Resolve merged, and was saved with
\* the vector clock of that load before anybody else wrote the key
SavedMerge ==
    /\ oop = "Save" /\ oerr = "nil"
    /\ oprev = <<"Load", "nil">>
    /\ obj.conflict
    /\ dest = "merged"
    /\ oresp.vclock = oreq.vclock + 1

\* the step is a load that reads what the node holds
LoadsAgain ==
    /\ ocalls' = ocalls + 1
    /\ oop' = "Load"
    /\ oresp'.kind = "GetResp"

\* C33: a read of a key under which two differing values were stored without
\* a vector clock yields an object in conflict with exactly those 2 siblings;
\* after Resolve has merged them and the model was saved, the node holds the
\* merge alone, and the next load, if nobody wrote in between, returns no
\* error and an object not in conflict whose value is the merge.
C33_RoundTrip ==
    /\ [](ReadTwo =>
            /\ obj.conflict
            /\ Len(obj.Siblings) = 2
            /\ \A n \in 1..2 : obj.Siblings[n].Data = oresp.content[n].value
            /\ obj.Siblings[1].Data # obj.Siblings[2].Data)
    /\ []((SavedMerge /\ store["k"].vclock = obj.Vclock) =>
            /\ Len(store["k"].content) = 1
            /\ Unmarshal(store["k"].content[1].value) = "merged")
    /\ [][(SavedMerge /\ store["k"].vclock = obj.Vclock /\ LoadsAgain) =>
            /\ oerr' = "nil"
            /\ ~obj'.conflict
            /\ obj'.Siblings = <<>>
            /\ Unmarshal(obj'.Data) = "merged"
            /\ dest' = "merged"
            /\ resolves' = 0]_vars

C33_Witness ==
    /\ oop = "Load" /\ oerr = "nil"
    /\ oprev = <<"Save", "nil">>
    /\ ocalls = 3
    /\ hasResolve
    /\ ~obj.conflict
    /\ obj.Data = "merged"
    /\ dest = "merged"
    /\ store["k"].content = <<oresp.content[1]>>
    /\ Len(oresp.content) = 1

\* ---- the package view: the default client -----------------------------------
\* calls of package-level functions over a behaviour
MaxPackageCalls == 3

\* the package-level functions that test defaultClient before they use it
Guarded == {"Ping", "Id", "SetId", "ServerVersion", "NewBucket",
            "RunMapReduce", "GetFrom", "DeleteFrom", "NewObjectIn",
            "ExistsIn", "NewModel", "NewModelIn", "LoadModel",
            "LoadModelFrom"}

\* the functions whose method of the Client starts with c.NewBucket(name)
ThroughBucket == {"NewBucket", "GetFrom", "DeleteFrom", "NewObjectIn",
                  "ExistsIn", "CreateFile", "OpenFile"}

\* bucket names an application passes
BucketNames == {"", "b"}

\* what the method of a Client the function hands over to can return
ClientMethod(f, name) ==
    IF f \in ThroughBucket /\ name = "" THEN {"NoBucketName"}
    ELSE {"nil", "error"}

\* c.NewBucket(name) on a nil *Client: the empty name is refused before c is
\* used, any other name reaches c.request, and getConn reads c.connected
NilClientMethod(name) ==
    IF name = "" THEN "NoBucketName" ELSE "panic"

\* the program runs and may call a package-level function
CanCallPackage == dres # "panic" /\ dcalls < MaxPackageCalls

\* ConnectClient / ConnectClientPool: the default client is set, whether or
\* not Connect succeeds
ConnectClient(res) ==
    /\ CanCallPackage
    /\ defaultClient' = "client"
    /\ dfn' = "ConnectClient"
    /\ dname' = ""
    /\ dres' = res
    /\ dcalls' = dcalls + 1
    /\ UNCHANGED <<pool, wire, object, rfile>>

\* a function that returns NoDefaultClientConnection when defaultClient is nil
DefaultCall(f, name) ==
    /\ CanCallPackage
    /\ f \notin ThroughBucket \cup {"NewModelIn", "LoadModelFrom"} => name = ""
    /\ dfn' = f
    /\ dname' = name
    /\ IF defaultClient = "nil"
       THEN dres' = "NoDefaultClientConnection"
       ELSE dres' \in ClientMethod(f, name)
    /\ dcalls' = dcalls + 1
    /\ UNCHANGED defaultClient
    /\ UNCHANGED <<pool, wire, object, rfile>>

\* NewMapReduce returns nil and no error when defaultClient is nil
NewMapReduce ==
    /\ CanCallPackage
    /\ dfn' = "NewMapReduce"
    /\ dname' = ""
    /\ dres' = IF defaultClient = "nil" THEN "nil" ELSE "MapReduce"
    /\ dcalls' = dcalls + 1
    /\ UNCHANGED defaultClient
    /\ UNCHANGED <<pool, wire, object, rfile>>

\* CreateFile and OpenFile of the package call the method on defaultClient
\* without a test
DefaultFile(f, name) ==
    /\ CanCallPackage
    /\ dfn' = f
    /\ dname' = name
    /\ IF defaultClient = "nil"
       THEN dres' = NilClientMethod(name)
       ELSE dres' \in ClientMethod(f, name)
    /\ dcalls' = dcalls + 1
    /\ UNCHANGED defaultClient
    /\ UNCHANGED <<pool, wire, object, rfile>>

DefaultInit ==
    /\ PoolIdle
    /\ WireIdle
    /\ ObjIdle
    /\ FileIdle
    /\ DefaultIdle

DefaultNext ==
    \/ \E res \in {"nil", "error"} : ConnectClient(res)
    \/ \E f \in Guarded, name \in BucketNames : DefaultCall(f, name)
    \/ NewMapReduce
    \/ \E f \in {"CreateFile", "OpenFile"}, name \in BucketNames :
            DefaultFile(f, name)

DefaultSpec == DefaultInit /\ [][DefaultNext]_vars

\* ---- C34 -----------------------------------------------------------------
\* the functions the claim names
Convenience == Guarded \cup {"CreateFile", "OpenFile"}

\* C34: while no default client is set, a call of a package-level convenience
\* function returns an error: it does not return without one and it does not
\* panic.
C34_ErrorWithoutClient ==
    (defaultClient = "nil" /\ dfn \in Convenience) =>
        dres \notin {"none", "nil", "panic"}

\* ---- the file view: RFile ------------------------------------------------------
\* The application creates a file and calls Write, Read, Seek and OpenFile on
\* it from one goroutine; every request to the node succeeds.
MaxChunkSize == 3    \* largest chunk_size a file is created with
MaxWrite == 3        \* largest len(p) of a Write or a Read
MaxFileCalls == 3    \* calls on the file over a behaviour

Bytes == {"a", "b"}
ChunkNos == 0..(MaxFileCalls * MaxWrite)

\* buffers an application writes
Buffers == UNION { [1..m -> Bytes] : m \in 1..MaxWrite }

\* p[lo:hi] of Go
Slice(p, lo, hi) == SubSeq(p, lo + 1, hi)

\* copy(dst[at:], src): as many bytes as fit into dst
Copy(dst, at, src) ==
    [m \in 1..Len(dst) |->
        IF m > at /\ m <= at + Len(src) THEN src[m - at] ELSE dst[m]]

\* r.client.GetFrom of the chunk with number no
GetChunk(cur, stored, no) ==
    IF cur # NoChunk /\ cur.key = no THEN [chunk |-> cur, err |-> "nil"]
    ELSE IF stored[no] = <<>> THEN [chunk |-> NoChunk, err |-> "NotFound"]
    ELSE [chunk |-> [key |-> no, data |-> stored[no]], err |-> "nil"]

\* the part of Write that fills r.chunk.Data: a slice expression whose bounds
\* are out of range panics
Fill(data, cpos, p, wp, towrite) ==
    LET have == Len(data)
        part == have - cpos
    IN  IF have = 0
        THEN [data |-> Slice(p, wp, wp + towrite), panic |-> FALSE]
        ELSE IF have < cpos + towrite
        THEN IF cpos = have
             THEN [data |-> data \o Slice(p, wp, wp + towrite),
                   panic |-> FALSE]
             ELSE IF cpos > have \/ towrite - part < part
             THEN [data |-> data, panic |-> TRUE]
             ELSE [data |-> Copy(data, cpos, Slice(p, wp, wp + part))
                              \o Slice(p, wp + part, wp + towrite - part),
                   panic |-> FALSE]
        ELSE [data |-> Copy(data, cpos, Slice(p, wp, wp + towrite)),
              panic |-> FALSE]

\* the loop of Write from wpos = f.n on
RECURSIVE WriteLoop(_, _, _)
WriteLoop(f, p, cs) ==
    IF f.n >= Len(p) THEN f
    ELSE
    LET no == f.pos \div cs
        got == IF f.pos < f.size \/ f.size % cs # 0
               THEN GetChunk(f.chunk, f.stored, no)
               ELSE [chunk |-> [key |-> no, data |-> <<>>], err |-> "nil"]
        cpos == f.pos % cs
        towrite == IF Len(p) - f.n > cs - cpos THEN cs - cpos
                   ELSE Len(p) - f.n
        filled == Fill(got.chunk.data, cpos, p, f.n, towrite)
        chunk == [got.chunk EXCEPT !.data = filled.data]
        pos == f.pos + towrite
    IN  IF got.err # "nil" THEN [f EXCEPT !.chunk = got.chunk, !.err = got.err]
        ELSE IF filled.panic THEN [f EXCEPT !.chunk = got.chunk, !.err = "panic"]
        ELSE WriteLoop(
               [chunk |-> chunk,
                stored |-> [f.stored EXCEPT ![no] = chunk.data],
                count |-> IF pos > f.size /\ pos \div cs > f.size \div cs
                          THEN pos \div cs + 1 ELSE f.count,
                pos |-> pos,
                size |-> IF pos > f.size THEN pos ELSE f.size,
                n |-> f.n + towrite,
                err |-> "nil"],
               p, cs)

\* the loop of Read from rpos = f.n on, for a buffer of len bytes
RECURSIVE ReadLoop(_, _, _, _, _)
ReadLoop(f, len, cs, size, stored) ==
    IF f.fin \/ f.n >= len THEN f
    ELSE IF ~(f.pos < size \/ size % cs # 0)
    THEN [f EXCEPT !.err = "EOF", !.fin = TRUE]
    ELSE
    LET got == GetChunk(f.chunk, stored, f.pos \div cs)
        cpos == f.pos % cs
        toread == IF len - f.n > cs - cpos THEN cs - cpos ELSE len - f.n
        have == Len(got.chunk.data)
    IN  IF got.err # "nil"
        THEN [f EXCEPT !.chunk = got.chunk, !.err = got.err, !.fin = TRUE]
        ELSE IF cpos > have
        THEN [f EXCEPT !.chunk = got.chunk, !.err = "panic", !.fin = TRUE]
        ELSE IF have - cpos < toread
        THEN [chunk |-> got.chunk, pos |-> f.pos,
              n |-> f.n + (have - cpos),
              out |-> f.out \o Slice(got.chunk.data, cpos, have),
              err |-> "EOF", fin |-> TRUE]
        ELSE ReadLoop(
               [chunk |-> got.chunk, pos |-> f.pos + toread,
                n |-> f.n + toread,
                out |-> f.out \o Slice(got.chunk.data, cpos, cpos + toread),
                err |-> "nil", fin |-> FALSE],
               len, cs, size, stored)

\* r.Seek(offset, whence): the position and the error
SeekTo(pos, size, offset, whence) ==
    LET to == CASE whence = 0 -> offset
                [] whence = 1 -> pos + offset
                [] whence = 2 -> size + offset
                [] OTHER -> pos
    IN  IF whence \in {0, 1, 2} /\ (to < 0 \/ to > size)
        THEN [pos |-> pos, err |-> "EOF"]
        ELSE [pos |-> to, err |-> "nil"]

\* client.OpenFile: the root, then the last chunk it counts
Open(stored, count, cs) ==
    IF count > 0
    THEN IF stored[count - 1] = <<>>
         THEN [err |-> "ErrorInFile", chunk |-> NoChunk, size |-> 0]
         ELSE [err |-> "nil",
               chunk |-> [key |-> count - 1, data |-> stored[count - 1]],
               size |-> (count - 1) * cs + Len(stored[count - 1])]
    ELSE [err |-> "nil", chunk |-> NoChunk, size |-> 0]

\* the bytes of the reference array after p was written at position pos
Written(arr, pos, p) ==
    [m \in 1..(IF pos + Len(p) > Len(arr) THEN pos + Len(p) ELSE Len(arr)) |->
        IF m > pos /\ m <= pos + Len(p) THEN p[m - pos] ELSE arr[m]]

\* the application holds a file, the program runs, the bound is not reached
CanCallFile == fopen /\ ferr # "panic" /\ fcalls < MaxFileCalls

\* n, err = r.Write(p)
Write(p) ==
    /\ CanCallFile
    /\ LET f == WriteLoop([chunk |-> fchunk, stored |-> fchunks,
                           count |-> chunk_count, pos |-> fpos,
                           size |-> fsize, n |-> 0, err |-> "nil"],
                          p, chunk_size)
       IN  /\ fchunk' = f.chunk
           /\ fchunks' = f.stored
           /\ chunk_count' = f.count
           /\ fpos' = f.pos
           /\ fsize' = f.size
           /\ fn' = f.n
           /\ ferr' = f.err
           /\ fref' = IF f.err = "nil" THEN Written(fref, fpos, p) ELSE fref
    /\ fop' = "Write"
    /\ flen' = Len(p)
    /\ fbuf' = <<>>
    /\ fprev' = fpos
    /\ fcalls' = fcalls + 1
    /\ UNCHANGED <<chunk_size, fopen>>
    /\ UNCHANGED <<pool, wire, object, dflt>>

\* n, err = r.Read(p) with len(p) = len
Read(len) ==
    /\ CanCallFile
    /\ LET f == ReadLoop([chunk |-> fchunk, pos |-> fpos, n |-> 0,
                          out |-> <<>>, err |-> "nil", fin |-> FALSE],
                         len, chunk_size, fsize, fchunks)
       IN  /\ fchunk' = f.chunk
           /\ fpos' = f.pos
           /\ fn' = f.n
           /\ ferr' = f.err
           /\ fbuf' = f.out
    /\ fop' = "Read"
    /\ flen' = len
    /\ fprev' = fpos
    /\ fcalls' = fcalls + 1
    /\ UNCHANGED <<fchunks, chunk_count, chunk_size, fsize, fopen, fref>>
    /\ UNCHANGED <<pool, wire, object, dflt>>

\* pos, err = r.Seek(offset, whence)
Seek(offset, whence) ==
    /\ CanCallFile
    /\ LET to == SeekTo(fpos, fsize, offset, whence)
       IN  /\ fpos' = to.pos
           /\ ferr' = to.err
           /\ fn' = to.pos
    /\ fop' = "Seek"
    /\ flen' = 0
    /\ fbuf' = <<>>
    /\ fprev' = fpos
    /\ fcalls' = fcalls + 1
    /\ UNCHANGED <<fchunks, chunk_count, chunk_size, fsize, fchunk, fopen,
                   fref>>
    /\ UNCHANGED <<pool, wire, object, dflt>>

\* r, err = client.OpenFile(bucketname, key): the application drops the file
\* it holds and opens the key again
OpenFile ==
    /\ CanCallFile
    /\ LET o == Open(fchunks, chunk_count, chunk_size)
       IN  /\ ferr' = o.err
           /\ fopen' = (o.err = "nil")
           /\ fchunk' = o.chunk
           /\ fsize' = o.size
    /\ fpos' = 0
    /\ fn' = 0
    /\ fop' = "OpenFile"
    /\ flen' = 0
    /\ fbuf' = <<>>
    /\ fprev' = fpos
    /\ fcalls' = fcalls + 1
    /\ UNCHANGED <<fchunks, chunk_count, chunk_size, fref>>
    /\ UNCHANGED <<pool, wire, object, dflt>>

\* r, err = client.CreateFile(bucketname, key, contentType, chunk_size) on a
\* key the node holds nothing under
FileInit ==
    /\ PoolIdle
    /\ WireIdle
    /\ ObjIdle
    /\ DefaultIdle
    /\ fchunks = [no \in ChunkNos |-> <<>>]
    /\ chunk_count = 0
    /\ chunk_size \in 1..MaxChunkSize
    /\ fpos = 0
    /\ fsize = 0
    /\ fchunk = NoChunk
    /\ fopen = TRUE
    /\ fop = "CreateFile"
    /\ flen = 0
    /\ fn = 0
    /\ ferr = "nil"
    /\ fbuf = <<>>
    /\ fprev = 0
    /\ fref = <<>>
    /\ fcalls = 0

FileNext ==
    \/ \E p \in Buffers : Write(p)
    \/ \E len \in 1..MaxWrite : Read(len)
    \/ \E offset \in (-MaxWrite)..(MaxFileCalls * MaxWrite),
          whence \in 0..2 : Seek(offset, whence)
    \/ OpenFile

FileSpec == FileInit /\ [][FileNext]_vars

\* the application only writes and seeks
WriteNext ==
    \/ \E p \in Buffers : Write(p)
    \/ \E offset \in (-MaxWrite)..(MaxFileCalls * MaxWrite),
          whence \in 0..2 : Seek(offset, whence)

WriteSpec == FileInit /\ [][WriteNext]_vars

\* ---- C35 -----------------------------------------------------------------
\* chunks a file of size bytes consists of
ChunksFor(size, cs) == (size + cs - 1) \div cs

\* the chunk objects the node holds
ChunkObjects == { no \in ChunkNos : fchunks[no] # <<>> }

\* the last call was a Write that wrote all of p
Wrote == fop = "Write" /\ ferr = "nil" /\ fn = flen

\* C35: after a successful Write, chunk_count of the root object is the
\* number of chunk objects of the file, ceil(size / chunk_size), and OpenFile
\* on the key yields a file whose size is the number of bytes written.
C35_ChunkCount ==
    Wrote =>
        /\ chunk_count = ChunksFor(fsize, chunk_size)
        /\ chunk_count = Cardinality(ChunkObjects)
        /\ Open(fchunks, chunk_count, chunk_size).err = "nil"
        /\ Open(fchunks, chunk_count, chunk_size).size = Len(fref)

\* ---- C36 -----------------------------------------------------------------
\* what Seek(0, 0) and a Read of size bytes return
WholeFile ==
    ReadLoop([chunk |-> fchunk, pos |-> 0, n |-> 0, out |-> <<>>,
              err |-> "nil", fin |-> FALSE],
             fsize, chunk_size, fsize, fchunks)

\* C36: after any sequence of Seek and Write calls every Write has returned
\* len(p) and no error, and the whole file read from position 0 is the
\* reference array on which the same writes were applied.
C36_LikeAFile ==
    /\ fop = "Write" => (ferr = "nil" /\ fn = flen)
    /\ fsize = Len(fref)
    /\ WholeFile.err \in {"nil", "EOF"}
    /\ WholeFile.out = fref

\* ---- C40 -----------------------------------------------------------------
\* C40: the position is within the file at all times; a Read moves it forward
\* by the number of bytes it returns, also when it returns io.EOF with the
\* rest of the last chunk, and a Read at the end of the file returns 0 bytes
\* and io.EOF.
C40_ReadAdvances ==
    /\ 0 <= fpos /\ fpos <= fsize
    /\ (fop = "Read" /\ ferr \in {"nil", "EOF"}) =>
          /\ fpos = fprev + fn
          /\ Len(fbuf) = fn
          /\ fprev = fsize => (fn = 0 /\ ferr = "EOF")

====
